---- MODULE Spec2Model ----
(***************************************************************************)
(* Xperf trace pipeline: Utils/Trace/MultiThreadVersion.py.                *)
(*                                                                         *)
(* The module models process_csv_multithreaded as a state machine: the     *)
(* coordinating control flow (open sink, segment, per-batch submit / wait  *)
(* / drain, final flush, closing bracket, finally), the worker pool units  *)
(* and the output sink; read_csv_and_split_frames, process_single_frame    *)
(* and the default processors are operators over the CSV rows.             *)
(*                                                                         *)
(* Durations are integers in units of 0.1 ms.  A CSV row is a record       *)
(* [Depth, Duration, bad]: bad names the column whose text is not a number *)
(* (or is missing), "none" when every column parses.                       *)
(***************************************************************************)
EXTENDS Integers, Sequences, FiniteSets, TLC

VARIABLES
    input,               \* the rows of the CSV file, in file order
    batch_size,          \* argument batch_size
    num_workers,         \* argument num_workers
    pc,                  \* position of the coordinating control flow
    sink,                \* chunks written to output_file so far
    sink_open,           \* output_file is open
    err,                 \* exception raised in the try block, "none" if none
    outcome,             \* how the call ended: "summary" or "raise"
    frame_data_list,     \* list(read_csv_and_split_frames(...))
    batch_start,         \* loop variable of the batch loop
    fut,                 \* future_to_frame: frame index -> the future's state and result
    tracker,             \* ThreadSafePerformanceTracker counters
    processed_count,
    frame_buffer,        \* dict in insertion order: <<[key, val], ...>>
    next_frame_to_write,
    first_frame,
    remaining_frames,    \* the list the final flush iterates over
    processors,          \* the processor objects passed to the sequential pipeline
    row_pos,             \* rows the sequential generator has read
    current_frame,       \* its current_frame_root and node_stack
    gen_frame_index,     \* its frame_index
    batch,               \* process_csv_with_processors' batch list
    calls,               \* the processor and tracker calls the sequential generator made
    tk_kind,             \* the tracker class shared by the threads
    tk_lock,             \* holder of self._lock: a thread, 0 the reader, -1 free
    tk_pc,               \* per thread: position in track_frame
    tk_field,            \* per thread: the counter its += is at
    tk_reg,              \* per thread: the value its += has loaded
    tk_frame,            \* per thread: the frame it tracks
    rd_pc,               \* the reader's position in get_summary
    rd_vals,             \* the attribute values get_summary has read
    ut_lines,            \* BuildTree.py: the lines of the trace file
    ut_pc,               \* position of run()
    all_frame,           \* UtraceHelper.all_frame
    ut_pos,              \* frames run() has handled
    leveled_data,        \* UtraceHelper.leveled_data: entry l + 1 is the list of level l
    ut_out,              \* what run() printed for each frame
    tn_class,            \* the name processor class: "MultiThread" or "Processor"
    tn_name,             \* the raw timer name, a sequence of characters
    tn_pc,               \* "call" before process_timer_name, "done" after
    tn_out,              \* the name process_timer_name returned
    ex_lock,             \* ThreadSafeExclusive.lock is locked
    ex_occupier,         \* ThreadSafeExclusive.occupier (0: None)
    ex_pc,               \* per thread: its position in occupy or release
    ex_ret,              \* per thread: what its last occupy returned
    co_task,             \* StoppableCoroutineParallel: the task of __run_wrapper
    co_future,           \* _running_future: "none", "pending", "Done" or "Cancelled"
    co_stop,             \* the caller's stop(): "no", "raised" or "called"
    co_await,            \* the coroutine_await call run() is in
    co_calls,            \* coroutine_await calls run() has made
    co_ret,              \* what the last coroutine_await returned
    max_frames,          \* argument max_frames (0: None)
    max_frame_count      \* DefaultFrameProcessor.max_frame_count (0: None or 0)

\* The state of the sequential pipeline (BuildTreeV2.py).
seqvars == <<processors, row_pos, current_frame, gen_frame_index, batch, calls>>

\* The threads that share one tracker object.
tkvars == <<tk_kind, tk_lock, tk_pc, tk_field, tk_reg, tk_frame, rd_pc, rd_vals>>

\* The state of BuildTree.py's run().
utvars == <<ut_lines, ut_pc, all_frame, ut_pos, leveled_data, ut_out>>

\* The state of a call of a name processor.
nmvars == <<tn_class, tn_name, tn_pc, tn_out>>

\* The state outside the trace pipelines.
\* The state of a ThreadSafeExclusive object and of the threads using it.
exvars == <<ex_lock, ex_occupier, ex_pc, ex_ret>>

\* The state of a StoppableCoroutineParallel object, its task and its caller.
covars == <<co_task, co_future, co_stop, co_await, co_calls, co_ret>>

\* The frame limits of a run.
lmvars == <<max_frames, max_frame_count>>

auxvars == <<nmvars, exvars, covars, lmvars>>

othervars == <<tkvars, utvars, auxvars>>

vars == <<input, batch_size, num_workers, pc, sink, sink_open, err, outcome,
          frame_data_list, batch_start, fut, tracker, processed_count,
          frame_buffer, next_frame_to_write, first_frame, remaining_frames,
          seqvars, othervars>>

\* Bounds of the model.
MaxRows == 4
MaxBatch == 2
MaxWorkers == 2
NumThreads == 2
MaxFrames == 2

\* Processor configuration of main(), in units of 0.1 ms.
min_duration == 1
min_frame_duration == 10

\* The rows the input is drawn from: a long root, a short root (its frame is
\* rejected by the frame filter), a child, a child whose TimerId is not a
\* number, and a row whose Depth is not a number.
RowKinds ==
    { [Depth |-> 0, Duration |-> 20, bad |-> "none"],
      [Depth |-> 0, Duration |-> 5,  bad |-> "none"],
      [Depth |-> 1, Duration |-> 5,  bad |-> "none"],
      [Depth |-> 1, Duration |-> 5,  bad |-> "TimerId"],
      [Depth |-> 1, Duration |-> 5,  bad |-> "Depth"] }

RowSeqs == UNION { [1..n -> RowKinds] : n \in 0..MaxRows }

\* Rows for the tree claims: the two roots, a child, a child shorter than
\* min_duration, a grandchild, and a row whose Depth is not a number.
TreeRowKinds ==
    { [Depth |-> 0, Duration |-> 20, bad |-> "none"],
      [Depth |-> 0, Duration |-> 5,  bad |-> "none"],
      [Depth |-> 1, Duration |-> 5,  bad |-> "none"],
      [Depth |-> 1, Duration |-> 0,  bad |-> "none"],
      [Depth |-> 2, Duration |-> 5,  bad |-> "none"],
      [Depth |-> 1, Duration |-> 5,  bad |-> "Depth"] }

TreeRowSeqs == UNION { [1..n -> TreeRowKinds] : n \in 0..MaxRows }

Min(S) == CHOOSE x \in S : \A y \in S : x <= y

\* F applied to the value of v, with v evaluated once.
Once(v, F(_)) == CHOOSE res \in { F(x) : x \in {v} } : TRUE

-----------------------------------------------------------------------------
(* read_csv_and_split_frames                                               *)

FrameData(frame_index, rows) == [frame_index |-> frame_index, rows |-> rows]

\* One pass of the generator over rows[i..]; cur is current_frame_rows, out
\* the frames yielded so far.  max_frames = 0 stands for None (falsy).
RECURSIVE SplitFrom(_, _, _, _, _, _)
SplitFrom(rows, i, cur, frame_index, out, maxf) ==
    LET AtEnd(c, fi, o) ==
            [raised |-> FALSE,
             frames |-> IF c # <<>> THEN Append(o, FrameData(fi, c)) ELSE o]
    IN
    IF i > Len(rows) THEN AtEnd(cur, frame_index, out)
    ELSE IF rows[i].bad = "Depth" THEN [raised |-> TRUE, frames |-> <<>>]
    ELSE IF rows[i].Depth = 0 /\ cur # <<>> THEN
        LET out1 == Append(out, FrameData(frame_index, cur)) IN
        IF maxf # 0 /\ frame_index + 1 >= maxf
        THEN AtEnd(cur, frame_index + 1, out1)
        ELSE SplitFrom(rows, i + 1, <<rows[i]>>, frame_index + 1, out1, maxf)
    ELSE SplitFrom(rows, i + 1, Append(cur, rows[i]), frame_index, out, maxf)

\* The generator without the yield that follows its row loop.
ReadCsvNoFinalFlush(rows, maxf) ==
    LET r == SplitFrom(rows, 1, <<>>, 0, <<>>, maxf) IN
    [raised |-> r.raised,
     frames |-> IF r.frames = <<>> THEN <<>>
                ELSE SubSeq(r.frames, 1, Len(r.frames) - 1)]

read_csv_and_split_frames(rows, maxf) ==
    SplitFrom(rows, 1, <<>>, 0, <<>>, maxf)

-----------------------------------------------------------------------------
(* process_single_frame and the default processors                         *)

\* A TreeNode: row is its position in the row group, parent the position of
\* the node whose children list holds it (0: none).
TreeNode(row, r, parent) ==
    [row |-> row, depth |-> r.Depth, duration |-> r.Duration, parent |-> parent]

\* The loop body with `while len(node_stack) >= depth` (one pop too many).
BuildStepPopOneMore(st, r) ==
    IF st.raised THEN st
    ELSE IF r.bad # "none" THEN [st EXCEPT !.raised = TRUE]
    ELSE LET n == Len(st.nodes) + 1 IN
        IF r.Depth = 0
        THEN [nodes |-> Append(st.nodes, TreeNode(n, r, 0)),
              stack |-> <<n>>, root |-> n, raised |-> FALSE]
        ELSE LET stk == IF Len(st.stack) >= r.Depth
                        THEN SubSeq(st.stack, 1, r.Depth - 1) ELSE st.stack
                 parent == IF stk # <<>> THEN stk[Len(stk)] ELSE 0
             IN [nodes |-> Append(st.nodes, TreeNode(n, r, parent)),
                 stack |-> Append(stk, n), root |-> st.root, raised |-> FALSE]

\* The loop body of the stack builder for one row.
BuildStep(st, r) ==
    IF st.raised THEN st
    ELSE IF r.bad # "none" THEN [st EXCEPT !.raised = TRUE]
    ELSE LET n == Len(st.nodes) + 1 IN
        IF r.Depth = 0
        THEN [nodes |-> Append(st.nodes, TreeNode(n, r, 0)),
              stack |-> <<n>>, root |-> n, raised |-> FALSE]
        ELSE LET stk == IF Len(st.stack) > r.Depth
                        THEN SubSeq(st.stack, 1, r.Depth) ELSE st.stack
                 parent == IF stk # <<>> THEN stk[Len(stk)] ELSE 0
             IN [nodes |-> Append(st.nodes, TreeNode(n, r, parent)),
                 stack |-> Append(stk, n), root |-> st.root, raised |-> FALSE]

RECURSIVE BuildFrom(_, _, _)
BuildFrom(rows, i, st) ==
    IF i > Len(rows) THEN st
    ELSE Once(BuildStep(st, rows[i]), LAMBDA st1 : BuildFrom(rows, i + 1, st1))

BuildTree(rows) ==
    BuildFrom(rows, 1, [nodes |-> <<>>, stack |-> <<>>, root |-> 0, raised |-> FALSE])

\* k lies in the tree under root (parents precede children in nodes).
RECURSIVE InTree(_, _, _)
InTree(nodes, root, k) ==
    \/ k = root
    \/ nodes[k].parent # 0 /\ nodes[k].parent < k /\ InTree(nodes, root, nodes[k].parent)

count_nodes_in_tree(nodes, root) ==
    Cardinality({k \in 1..Len(nodes) : InTree(nodes, root, k)})

\* A call of a processor method: op is its name, arg the frame_index it is
\* given (frame processor) or the position of the node it is given in the
\* frame's row group (node processor); for the tracker's track_frame, arg
\* is the node count it is given.
Call(op, arg) == [op |-> op, arg |-> arg]

\* DefaultNodeProcessor.should_include_node with exclude_categories = [].
should_include_node(node) == ~(node.duration < min_duration)

\* DefaultFrameProcessor.should_include_frame (MultiThreadVersion.py):
\* `if self.max_frame_count and frame_index > self.max_frame_count`.
should_include_frame(frame_root, frame_index) ==
    IF max_frame_count # 0 /\ frame_index > max_frame_count THEN FALSE
    ELSE ~(frame_root.duration < min_frame_duration)

\* Processor/DefaultProcessors.py, DefaultNodeProcessor.should_include_node:
\* the threshold and category tests are commented out.
Processor_should_include_node(node) == TRUE

\* Processor/DefaultProcessors.py, DefaultFrameProcessor.should_include_frame:
\* the frame cap and the threshold test are commented out.
Processor_should_include_frame(frame_root, frame_index) == TRUE

\* node_processor.should_include_node(node), frame_processor.
\* should_include_frame(frame_root, frame_index) for the processor objects p:
\* "Default" are the classes of Processor/DefaultProcessors.py, "Threshold"
\* processors that apply the configured duration thresholds.
IncludeNode(p, node) ==
    IF p = "Default" THEN Processor_should_include_node(node)
    ELSE should_include_node(node)

IncludeFrame(p, frame_root, frame_index) ==
    IF p = "Default" THEN Processor_should_include_frame(frame_root, frame_index)
    ELSE should_include_frame(frame_root, frame_index)

\* frame_processor.process_frame: the frame_index left in the root's
\* metadata (-1: none; Processor/DefaultProcessors.py sets no metadata).
ProcessFrameIndex(p, frame_index) == IF p = "Default" THEN -1 ELSE frame_index

\* node.children of node k: the nodes whose parent is k, in encounter order.
Children(nodes, k) ==
    SelectSeq([c \in 1..Len(nodes) |-> c], LAMBDA c : nodes[c].parent = k)

\* filter_tree_nodes(root, node_processor) for root = node k.  st holds the
\* nodes and the calls made so far; the result adds kept: a node was
\* returned (not None).  processed_root.children = filtered_children changes
\* the node in place: a child that is not returned leaves its parent's list
\* (parent 0), with its own children list untouched.
RECURSIVE filter_tree_nodes(_, _, _)
RECURSIVE FilterChildren(_, _, _, _)
filter_tree_nodes(p, st, k) ==
    LET asked == Append(st.calls, Call("should_include_node", k)) IN
    IF ~IncludeNode(p, st.nodes[k])
    THEN [kept |-> FALSE, nodes |-> st.nodes, calls |-> asked]
    ELSE FilterChildren(p, [nodes |-> st.nodes,
                            calls |-> Append(asked, Call("process_node", k))],
                        Children(st.nodes, k), 1)

\* The loop without its `if filtered_child` test: a child that is not
\* returned stays in the list.
RECURSIVE FilterChildrenKeepAll(_, _, _, _)
FilterChildrenKeepAll(p, st, cs, j) ==
    IF j > Len(cs) THEN [kept |-> TRUE, nodes |-> st.nodes, calls |-> st.calls]
    ELSE Once(filter_tree_nodes(p, st, cs[j]),
              LAMBDA r : FilterChildrenKeepAll(p, [nodes |-> r.nodes, calls |-> r.calls],
                                               cs, j + 1))

\* for child in root.children, from the j-th child on
FilterChildren(p, st, cs, j) ==
    IF j > Len(cs) THEN [kept |-> TRUE, nodes |-> st.nodes, calls |-> st.calls]
    ELSE Once(filter_tree_nodes(p, st, cs[j]),
              LAMBDA r : FilterChildren(p,
                            [nodes |-> IF r.kept THEN r.nodes
                                       ELSE [r.nodes EXCEPT ![cs[j]].parent = 0],
                             calls |-> r.calls],
                            cs, j + 1))

EmptyDict == [frame_index |-> -1, nodes |-> <<>>]

\* root.to_dict(): the nodes of the tree in encounter order, each with its
\* parent; frame_index is the one process_frame left in the root's metadata.
to_dict(nodes, root, frame_index) ==
    [frame_index |-> frame_index,
     nodes |-> SelectSeq(nodes, LAMBDA n : InTree(nodes, root, n.row))]

ProcessedFrame(frame_index, frame_dict, original_nodes, filtered_nodes, included) ==
    [frame_index |-> frame_index, frame_dict |-> frame_dict,
     original_nodes |-> original_nodes, filtered_nodes |-> filtered_nodes,
     included |-> included, raised |-> FALSE, calls |-> <<>>]

\* process_single_frame's try block after the tree t is built, for frame
\* index fi; raised: an exception left the block; calls: the processor
\* calls it made.  The counts of an included frame are taken after
\* filter_tree_nodes has changed frame_root in place.
AfterBuild(t, fi) ==
    IF t.raised THEN [ProcessedFrame(fi, EmptyDict, 0, 0, FALSE) EXCEPT !.raised = TRUE]
    ELSE IF t.root = 0 THEN ProcessedFrame(fi, EmptyDict, 0, 0, FALSE)
    ELSE IF ~should_include_frame(t.nodes[t.root], fi)
    THEN [ProcessedFrame(fi, EmptyDict, count_nodes_in_tree(t.nodes, t.root), 0, FALSE)
             EXCEPT !.calls = <<Call("should_include_frame", fi)>>]
    ELSE Once(filter_tree_nodes("Threshold",
                 [nodes |-> t.nodes,
                  calls |-> <<Call("should_include_frame", fi), Call("process_frame", fi)>>],
                 t.root),
              LAMBDA f :
                 LET original_count == count_nodes_in_tree(f.nodes, t.root) IN
                 IF ~f.kept
                 THEN [ProcessedFrame(fi, EmptyDict, original_count, 0, FALSE)
                          EXCEPT !.calls = f.calls]
                 ELSE [ProcessedFrame(fi, to_dict(f.nodes, t.root, fi), original_count,
                                      count_nodes_in_tree(f.nodes, t.root), TRUE)
                          EXCEPT !.calls = f.calls])

\* The body of process_single_frame's try block.
FrameBody(frame_data) ==
    Once(BuildTree(frame_data.rows), LAMBDA t : AfterBuild(t, frame_data.frame_index))

\* process_single_frame without its except clause.
ProcessSingleFrameNoCatch(frame_data) == FrameBody(frame_data)

\* process_single_frame: except Exception yields an excluded result.
process_single_frame(frame_data) ==
    Once(FrameBody(frame_data),
         LAMBDA r : IF r.raised
                    THEN ProcessedFrame(frame_data.frame_index, EmptyDict, 0, 0, FALSE)
                    ELSE r)

-----------------------------------------------------------------------------
(* ThreadSafePerformanceTracker                                            *)

NewTracker == [frame_count |-> 0, total_nodes |-> 0, filtered_nodes |-> 0,
               filtered_frames |-> 0]

track_frame(t, processed_frame) ==
    [frame_count |-> t.frame_count + 1,
     total_nodes |-> t.total_nodes + processed_frame.original_nodes,
     filtered_nodes |-> t.filtered_nodes + processed_frame.filtered_nodes,
     filtered_frames |-> IF ~processed_frame.included
                         THEN t.filtered_frames + 1 ELSE t.filtered_frames]

get_summary(t) ==
    [total_frames |-> t.frame_count,
     filtered_frames |-> t.filtered_frames,
     included_frames |-> t.frame_count - t.filtered_frames,
     total_nodes |-> t.total_nodes,
     filtered_nodes |-> t.filtered_nodes,
     included_nodes |-> t.total_nodes - t.filtered_nodes]

-----------------------------------------------------------------------------
(* frame_buffer: a dict, kept in insertion order                           *)

Keys(buf) == { buf[p].key : p \in 1..Len(buf) }

InBuffer(buf, k) == k \in Keys(buf)

Get(buf, k) == buf[CHOOSE p \in 1..Len(buf) : buf[p].key = k].val

Put(buf, k, v) ==
    IF InBuffer(buf, k)
    THEN [p \in 1..Len(buf) |-> IF buf[p].key = k THEN [key |-> k, val |-> v] ELSE buf[p]]
    ELSE Append(buf, [key |-> k, val |-> v])

Del(buf, k) == SelectSeq(buf, LAMBDA e : e.key # k)

KeySeq(buf) == [p \in 1..Len(buf) |-> buf[p].key]

\* The final flush without sorted(): the keys in dict order.
RemainingUnsorted(buf, next) ==
    SelectSeq(KeySeq(buf), LAMBDA idx : idx >= next)

\* The final flush skipped.
RemainingNone(buf, next) == <<>>

\* sorted([idx for idx in frame_buffer.keys() if idx >= next_frame_to_write])
RemainingFrames(buf, next) ==
    SortSeq(SelectSeq(KeySeq(buf), LAMBDA idx : idx >= next), LAMBDA a, b : a < b)

-----------------------------------------------------------------------------
(* The output sink: the chunks of the write calls, in order.  json.dump    *)
(* writes an object in several chunks; the model keeps the first ("head")  *)
(* and the last ("tail").                                                  *)

Chunk(kind, d) == [kind |-> kind, d |-> d]

\* process_csv_multithreaded writes '[', ',' with a line feed, and a line
\* feed with ']'.
Open == Chunk("[", EmptyDict)
Comma == Chunk(",LF", EmptyDict)
Close == Chunk("LF]", EmptyDict)

WriteComma(s, first) == IF ~first THEN Append(s, Comma) ELSE s

-----------------------------------------------------------------------------
(* process_csv_multithreaded                                               *)

total_frames == Len(frame_data_list)

\* A batch of one frame more than batch_size.
BatchEndOneMore == IF batch_start + batch_size + 1 < total_frames
                   THEN batch_start + batch_size + 1 ELSE total_frames

batch_end == IF batch_start + batch_size < total_frames
             THEN batch_start + batch_size ELSE total_frames

\* A future: state is "queued", "running", "done" (finished, not yet
\* yielded by as_completed) or "consumed"; result is what future.result()
\* gives once the unit has run.
NoResult == ProcessedFrame(-1, EmptyDict, 0, 0, FALSE)

Future(state, result) == [state |-> state, result |-> result]

Running == { i \in DOMAIN fut : fut[i].state = "running" }
Queued == { i \in DOMAIN fut : fut[i].state = "queued" }

\* A pool that runs one unit fewer than max_workers (off by one).
CanStartOffByOne(running, workers) == running < workers - 1

\* A pool thread is idle: the pool never runs more than max_workers units.
CanStart(running, workers) == running < workers

\* The sequential pipeline before its first step.
EmptyBuild == [nodes |-> <<>>, stack |-> <<>>, root |-> 0, raised |-> FALSE]

SeqIdle ==
    /\ row_pos = 0
    /\ current_frame = EmptyBuild
    /\ gen_frame_index = 0
    /\ batch = <<>>
    /\ calls = <<>>

\* No threads share a tracker.
TrackerIdle ==
    /\ tk_kind = "ThreadSafe"
    /\ tk_lock = -1
    /\ tk_pc = <<>>
    /\ tk_field = <<>>
    /\ tk_reg = <<>>
    /\ tk_frame = <<>>
    /\ rd_pc = "idle"
    /\ rd_vals = <<>>

\* BuildTree.py's run() is not running.
UtraceIdle ==
    /\ ut_lines = <<>>
    /\ ut_pc = "idle"
    /\ all_frame = <<>>
    /\ ut_pos = 0
    /\ leveled_data = <<>>
    /\ ut_out = <<>>

\* No name processor is being called.
NameIdle ==
    /\ tn_class = "none"
    /\ tn_name = <<>>
    /\ tn_pc = "idle"
    /\ tn_out = <<>>

\* No ThreadSafeExclusive object is in use.
ExclusiveIdle ==
    /\ ex_lock = FALSE
    /\ ex_occupier = 0
    /\ ex_pc = <<>>
    /\ ex_ret = <<>>

\* run() is in no coroutine_await call.
NoAwait == [awaited |-> "none", result |-> "none", default_ret |-> "none"]

\* No StoppableCoroutineParallel object exists.
CoroutineIdle ==
    /\ co_task = "idle"
    /\ co_future = "none"
    /\ co_stop = "no"
    /\ co_await = NoAwait
    /\ co_calls = 0
    /\ co_ret = "unset"

\* main(): max_frames = None, given as max_frames and as max_frame_count.
NoLimit ==
    /\ max_frames = 0
    /\ max_frame_count = 0

AuxIdle == NameIdle /\ ExclusiveIdle /\ CoroutineIdle /\ NoLimit

\* The state process_csv_multithreaded starts in.
InitState ==
    /\ pc = "start"
    /\ sink = <<>>
    /\ sink_open = FALSE
    /\ err = "none"
    /\ outcome = "none"
    /\ frame_data_list = <<>>
    /\ batch_start = 0
    /\ fut = <<>>
    /\ tracker = NewTracker
    /\ processed_count = 0
    /\ frame_buffer = <<>>
    /\ next_frame_to_write = 0
    /\ first_frame = TRUE
    /\ remaining_frames = <<>>

Init ==
    /\ input \in RowSeqs
    /\ batch_size \in 1..MaxBatch
    /\ num_workers \in 1..MaxWorkers
    /\ processors = "Threshold"
    /\ SeqIdle
    /\ UtraceIdle
    /\ TrackerIdle
    /\ AuxIdle
    /\ InitState

\* The same run over rows that make trees with dropped nodes.
InitTree ==
    /\ input \in TreeRowSeqs
    /\ batch_size = MaxBatch
    /\ num_workers = MaxWorkers
    /\ processors = "Threshold"
    /\ SeqIdle
    /\ UtraceIdle
    /\ TrackerIdle
    /\ AuxIdle
    /\ InitState

\* open(output_file_path, 'w'); output_file.write('[')
OpenSink ==
    /\ pc = "start"
    /\ sink' = <<Open>>
    /\ sink_open' = TRUE
    /\ pc' = "segment"
    /\ UNCHANGED <<seqvars, othervars, input, batch_size, num_workers, err, outcome, frame_data_list,
                   batch_start, fut, tracker, processed_count, frame_buffer,
                   next_frame_to_write, first_frame, remaining_frames>>

\* frame_data_list = list(read_csv_and_split_frames(csv_file_path, max_frames))
\* the zero-frame return leaves through finally.
Segment ==
    /\ pc = "segment"
    /\ LET r == read_csv_and_split_frames(input, max_frames) IN
       IF r.raised
       THEN /\ err' = "ValueError"
            /\ pc' = "except"
            /\ UNCHANGED frame_data_list
       ELSE /\ frame_data_list' = r.frames
            /\ pc' = IF Len(r.frames) = 0 THEN "finally" ELSE "submit"
            /\ UNCHANGED err
    /\ UNCHANGED <<seqvars, othervars, input, batch_size, num_workers, sink, sink_open, outcome,
                   batch_start, fut, tracker, processed_count, frame_buffer,
                   next_frame_to_write, first_frame, remaining_frames>>

\* executor.submit for every frame of the batch
SubmitBatch ==
    /\ pc = "submit"
    /\ fut' = [i \in batch_start..(batch_end - 1) |-> Future("queued", NoResult)]
    /\ pc' = "wait"
    /\ UNCHANGED <<seqvars, othervars, input, batch_size, num_workers, sink, sink_open, err, outcome,
                   frame_data_list, batch_start, tracker, processed_count,
                   frame_buffer, next_frame_to_write, first_frame, remaining_frames>>

\* An idle pool thread takes the oldest queued unit.
WorkerStart(i) ==
    /\ i \in Queued
    /\ i = Min(Queued)
    /\ CanStart(Cardinality(Running), num_workers)
    /\ fut' = [fut EXCEPT ![i].state = "running"]
    /\ UNCHANGED <<seqvars, othervars, input, batch_size, num_workers, pc, sink, sink_open, err, outcome,
                   frame_data_list, batch_start, tracker, processed_count,
                   frame_buffer, next_frame_to_write, first_frame, remaining_frames>>

\* The unit runs process_single_frame on its frame and returns; its future
\* is finished and holds the result.
WorkerFinish(i) ==
    /\ i \in Running
    /\ fut' = [fut EXCEPT ![i] = Future("done", process_single_frame(frame_data_list[i + 1]))]
    /\ UNCHANGED <<seqvars, othervars, input, batch_size, num_workers, pc, sink, sink_open, err, outcome,
                   frame_data_list, batch_start, tracker, processed_count,
                   frame_buffer, next_frame_to_write, first_frame, remaining_frames>>

\* One iteration of the as_completed loop, for a finished future: when
\* future.result() raises, only processed_count is advanced.
HandleCompletion(i) ==
    /\ pc = "wait"
    /\ i \in DOMAIN fut
    /\ fut[i].state = "done"
    /\ LET processed_frame == fut[i].result
           frame_index == frame_data_list[i + 1].frame_index
       IN
       IF processed_frame.raised
       THEN UNCHANGED <<tracker, frame_buffer>>
       ELSE /\ tracker' = track_frame(tracker, processed_frame)
            /\ frame_buffer' = IF processed_frame.included
                               THEN Put(frame_buffer, frame_index, processed_frame.frame_dict)
                               ELSE frame_buffer
    /\ processed_count' = processed_count + 1
    /\ fut' = [fut EXCEPT ![i].state = "consumed"]
    /\ pc' = IF \A j \in DOMAIN fut : j = i \/ fut[j].state = "consumed"
             THEN "drain" ELSE "wait"
    /\ UNCHANGED <<seqvars, othervars, input, batch_size, num_workers, sink, sink_open, err, outcome,
                   frame_data_list, batch_start, next_frame_to_write, first_frame,
                   remaining_frames>>

\* while next_frame_to_write in frame_buffer: the separator write
DrainWrite ==
    /\ pc = "drain"
    /\ InBuffer(frame_buffer, next_frame_to_write)
    /\ sink' = WriteComma(sink, first_frame)
    /\ pc' = "dump_head"
    /\ UNCHANGED <<seqvars, othervars, input, batch_size, num_workers, sink_open, err, outcome,
                   frame_data_list, batch_start, fut, tracker, processed_count,
                   frame_buffer, next_frame_to_write, first_frame, remaining_frames>>

\* json.dump(frame_buffer[next_frame_to_write], ...): first chunk
DumpHead ==
    /\ pc = "dump_head"
    /\ sink' = Append(sink, Chunk("head", Get(frame_buffer, next_frame_to_write)))
    /\ pc' = "dump_tail"
    /\ UNCHANGED <<seqvars, othervars, input, batch_size, num_workers, sink_open, err, outcome,
                   frame_data_list, batch_start, fut, tracker, processed_count,
                   frame_buffer, next_frame_to_write, first_frame, remaining_frames>>

\* json.dump: last chunk; first_frame = False; del; next_frame_to_write += 1
DumpTail ==
    /\ pc = "dump_tail"
    /\ sink' = Append(sink, Chunk("tail", Get(frame_buffer, next_frame_to_write)))
    /\ first_frame' = FALSE
    /\ frame_buffer' = Del(frame_buffer, next_frame_to_write)
    /\ next_frame_to_write' = next_frame_to_write + 1
    /\ pc' = "drain"
    /\ UNCHANGED <<seqvars, othervars, input, batch_size, num_workers, sink_open, err, outcome,
                   frame_data_list, batch_start, fut, tracker, processed_count,
                   remaining_frames>>

\* The drain loop ends at a missing key; gc; next batch, or after the last
\* batch the list of the remaining frames.
BatchEnd ==
    /\ pc = "drain"
    /\ ~InBuffer(frame_buffer, next_frame_to_write)
    /\ batch_start' = batch_start + batch_size
    /\ IF batch_start + batch_size < total_frames
       THEN /\ pc' = "submit"
            /\ UNCHANGED remaining_frames
       ELSE /\ pc' = "final"
            /\ remaining_frames' = RemainingFrames(frame_buffer, next_frame_to_write)
    /\ UNCHANGED <<seqvars, othervars, input, batch_size, num_workers, sink, sink_open, err, outcome,
                   frame_data_list, fut, tracker, processed_count, frame_buffer,
                   next_frame_to_write, first_frame>>

\* for frame_idx in remaining_frames: the separator write
FinalWrite ==
    /\ pc = "final"
    /\ remaining_frames # <<>>
    /\ sink' = WriteComma(sink, first_frame)
    /\ pc' = "final_head"
    /\ UNCHANGED <<seqvars, othervars, input, batch_size, num_workers, sink_open, err, outcome,
                   frame_data_list, batch_start, fut, tracker, processed_count,
                   frame_buffer, next_frame_to_write, first_frame, remaining_frames>>

FinalHead ==
    /\ pc = "final_head"
    /\ sink' = Append(sink, Chunk("head", Get(frame_buffer, Head(remaining_frames))))
    /\ pc' = "final_tail"
    /\ UNCHANGED <<seqvars, othervars, input, batch_size, num_workers, sink_open, err, outcome,
                   frame_data_list, batch_start, fut, tracker, processed_count,
                   frame_buffer, next_frame_to_write, first_frame, remaining_frames>>

FinalTail ==
    /\ pc = "final_tail"
    /\ sink' = Append(sink, Chunk("tail", Get(frame_buffer, Head(remaining_frames))))
    /\ first_frame' = FALSE
    /\ remaining_frames' = Tail(remaining_frames)
    /\ pc' = "final"
    /\ UNCHANGED <<seqvars, othervars, input, batch_size, num_workers, sink_open, err, outcome,
                   frame_data_list, batch_start, fut, tracker, processed_count,
                   frame_buffer, next_frame_to_write>>

\* output_file.write('\n]')
CloseBracket ==
    /\ pc = "final"
    /\ remaining_frames = <<>>
    /\ sink' = Append(sink, Close)
    /\ pc' = "finally"
    /\ UNCHANGED <<seqvars, othervars, input, batch_size, num_workers, sink_open, err, outcome,
                   frame_data_list, batch_start, fut, tracker, processed_count,
                   frame_buffer, next_frame_to_write, first_frame, remaining_frames>>

\* except Exception as e: print, traceback.print_exc()
ExceptHandler ==
    /\ pc = "except"
    /\ pc' = "finally"
    /\ UNCHANGED <<seqvars, othervars, input, batch_size, num_workers, sink, sink_open, err, outcome,
                   frame_data_list, batch_start, fut, tracker, processed_count,
                   frame_buffer, next_frame_to_write, first_frame, remaining_frames>>

\* finally: output_file.close(); then return tracker.get_summary(), unless an
\* exception that except Exception does not catch is still in flight.
Finally ==
    /\ pc = "finally"
    /\ sink_open' = FALSE
    /\ outcome' = IF err = "KeyboardInterrupt" THEN "raise" ELSE "summary"
    /\ pc' = "returned"
    /\ UNCHANGED <<seqvars, othervars, input, batch_size, num_workers, sink, err, frame_data_list,
                   batch_start, fut, tracker, processed_count, frame_buffer,
                   next_frame_to_write, first_frame, remaining_frames>>

Next ==
    \/ OpenSink
    \/ Segment
    \/ SubmitBatch
    \/ \E i \in DOMAIN fut : WorkerStart(i)
    \/ \E i \in DOMAIN fut : WorkerFinish(i)
    \/ \E i \in DOMAIN fut : HandleCompletion(i)
    \/ DrainWrite
    \/ DumpHead
    \/ DumpTail
    \/ BatchEnd
    \/ FinalWrite
    \/ FinalHead
    \/ FinalTail
    \/ CloseBracket
    \/ ExceptHandler
    \/ Finally

Spec == Init /\ [][Next]_vars

\* The coordinating thread and the pool threads keep running.
FairSpec == Spec /\ WF_vars(Next)

TreeSpec == InitTree /\ [][Next]_vars

\* process_csv_multithreaded called with max_frames, its frame processor a
\* DefaultFrameProcessor with max_frame_count.
LimitInit ==
    /\ input \in RowSeqs
    /\ batch_size = MaxBatch
    /\ num_workers = MaxWorkers
    /\ processors = "Threshold"
    /\ max_frames \in 0..MaxFrames
    /\ max_frame_count \in 0..MaxFrames
    /\ SeqIdle
    /\ UtraceIdle
    /\ TrackerIdle
    /\ NameIdle
    /\ ExclusiveIdle
    /\ CoroutineIdle
    /\ InitState

LimitSpec == LimitInit /\ [][Next]_vars

-----------------------------------------------------------------------------
(* The same run with a sink whose writes may fail and with an external     *)
(* interrupt of the coordinating thread.                                   *)

\* The coordinating thread is about to call output_file.write.
AboutToWrite ==
    \/ pc \in {"dump_head", "dump_tail", "final_head", "final_tail"}
    \/ pc = "drain" /\ InBuffer(frame_buffer, next_frame_to_write) /\ ~first_frame
    \/ pc = "final" /\ remaining_frames # <<>> /\ ~first_frame
    \/ pc = "final" /\ remaining_frames = <<>>

\* A write after the opening bracket raises OSError: nothing more of the
\* chunk reaches the sink, and the exception leaves the with block for
\* except Exception.
WriteFail ==
    /\ AboutToWrite
    /\ err' = "OSError"
    /\ pc' = "except"
    /\ fut' = <<>>
    /\ UNCHANGED <<seqvars, othervars, input, batch_size, num_workers, sink, sink_open, outcome,
                   frame_data_list, batch_start, tracker, processed_count,
                   frame_buffer, next_frame_to_write, first_frame, remaining_frames>>

\* KeyboardInterrupt in the try block: not an Exception, so control goes to
\* finally; the executor is shut down and the units in flight are dropped.
Interrupt ==
    /\ pc \notin {"start", "except", "finally", "returned"}
    /\ err' = "KeyboardInterrupt"
    /\ pc' = "finally"
    /\ fut' = <<>>
    /\ UNCHANGED <<seqvars, othervars, input, batch_size, num_workers, sink, sink_open, outcome,
                   frame_data_list, batch_start, tracker, processed_count,
                   frame_buffer, next_frame_to_write, first_frame, remaining_frames>>

NextIO ==
    \/ Next
    \/ WriteFail
    \/ Interrupt

SpecIO == Init /\ [][NextIO]_vars

-----------------------------------------------------------------------------
(* The sequential pipeline: BuildTreeV2.py, process_csv_with_processors    *)
(* driving parse_csv_to_trees_generator, with Processor/PerformanceTracker *)

\* PerformanceTracker.track_frame
Processor_track_frame(t, node_count, filtered_count, included) ==
    [frame_count |-> t.frame_count + 1,
     total_nodes |-> t.total_nodes + node_count,
     filtered_nodes |-> t.filtered_nodes + filtered_count,
     filtered_frames |-> IF ~included THEN t.filtered_frames + 1 ELSE t.filtered_frames]

FrameOutcome(call_log, yielded, d, tracked, node_count, filtered_count, included) ==
    [calls |-> call_log, yielded |-> yielded, d |-> d, tracked |-> tracked,
     node_count |-> node_count, filtered_count |-> filtered_count,
     included |-> included]

\* The generator's handling of the complete frame t when the next depth-0
\* row arrives, with frame_index already fi: the processor calls, whether a
\* dict is yielded, and the arguments of tracker.track_frame.  The counts
\* of an included frame are taken after filter_tree_nodes has changed
\* current_frame_root in place.
CompleteFrame(p, t, fi) ==
    IF ~IncludeFrame(p, t.nodes[t.root], fi)
    THEN FrameOutcome(<<Call("should_include_frame", fi)>>, FALSE, EmptyDict, TRUE,
                      count_nodes_in_tree(t.nodes, t.root), 0, FALSE)
    ELSE Once(filter_tree_nodes(p,
                 [nodes |-> t.nodes,
                  calls |-> <<Call("should_include_frame", fi), Call("process_frame", fi)>>],
                 t.root),
              LAMBDA f :
                 IF f.kept
                 THEN FrameOutcome(f.calls, TRUE,
                                   to_dict(f.nodes, t.root, ProcessFrameIndex(p, fi)), TRUE,
                                   count_nodes_in_tree(f.nodes, t.root),
                                   count_nodes_in_tree(f.nodes, t.root), TRUE)
                 ELSE FrameOutcome(f.calls, FALSE, EmptyDict, TRUE,
                                   count_nodes_in_tree(f.nodes, t.root), 0, FALSE))

\* The generator's handling of the last frame, after the row loop: the
\* same calls, but track_frame and yield only under `if filtered_frame`.
LastFrame(p, t, fi) ==
    Once(CompleteFrame(p, t, fi), LAMBDA r : [r EXCEPT !.tracked = r.included])

\* process_csv_with_processors writes ',' and ']' without line feeds.
SeqComma == Chunk(",", EmptyDict)
SeqClose == Chunk("]", EmptyDict)

\* for frame in batch: separator, json.dump
RECURSIVE WriteFrames(_, _, _, _)
WriteFrames(s, first, fs, j) ==
    IF j > Len(fs) THEN s
    ELSE WriteFrames((IF ~first THEN Append(s, SeqComma) ELSE s)
                        \o <<Chunk("head", fs[j]), Chunk("tail", fs[j])>>,
                     FALSE, fs, j + 1)

\* The body of the consumer's loop for one yielded frame_tree: append to
\* the batch and write the batch out when it has batch_size frames.
Consume(frame_tree) ==
    LET batch1 == Append(batch, frame_tree) IN
    IF Len(batch1) >= batch_size
    THEN /\ sink' = WriteFrames(sink, first_frame, batch1, 1)
         /\ first_frame' = FALSE
         /\ batch' = <<>>
    ELSE /\ batch' = batch1
         /\ UNCHANGED <<sink, first_frame>>

\* The frame outcome r reaches the tracker and the consumer.
Deliver(r) ==
    /\ calls' = calls \o r.calls
                 \o (IF r.tracked THEN <<Call("track_frame", r.node_count)>> ELSE <<>>)
    /\ tracker' = IF r.tracked
                  THEN Processor_track_frame(tracker, r.node_count, r.filtered_count, r.included)
                  ELSE tracker
    /\ IF r.yielded THEN Consume(r.d) ELSE UNCHANGED <<sink, first_frame, batch>>

mtlocals == <<num_workers, frame_data_list, batch_start, fut, processed_count,
              frame_buffer, next_frame_to_write, remaining_frames>>

SeqInit ==
    /\ input \in TreeRowSeqs
    /\ batch_size \in 1..MaxBatch
    /\ num_workers = 1
    /\ processors \in {"Default", "Threshold"}
    /\ SeqIdle
    /\ UtraceIdle
    /\ TrackerIdle
    /\ AuxIdle
    /\ InitState

\* output_file = open(output_file_path, 'w'); output_file.write('[')
SeqOpen ==
    /\ pc = "start"
    /\ sink' = <<Open>>
    /\ sink_open' = TRUE
    /\ pc' = "seq_read"
    /\ UNCHANGED <<seqvars, othervars, mtlocals, input, batch_size, err, outcome, tracker,
                   first_frame>>

\* One iteration of `for row in reader`, the consumer's loop body included
\* when the row completes a frame that is yielded.  A field that does not
\* parse raises out of the generator and out of the consumer's try block.
SeqRow ==
    /\ pc = "seq_read"
    /\ row_pos < Len(input)
    /\ row_pos' = row_pos + 1
    /\ LET row == input[row_pos + 1] IN
       IF row.bad # "none"
       THEN /\ err' = "ValueError"
            /\ pc' = "seq_finally"
            /\ UNCHANGED <<current_frame, gen_frame_index, calls, tracker, sink,
                           first_frame, batch>>
       ELSE /\ UNCHANGED <<err, pc>>
            /\ IF row.Depth = 0
               THEN /\ current_frame' = BuildStep(EmptyBuild, row)
                    /\ IF current_frame.root # 0
                       THEN /\ gen_frame_index' = gen_frame_index + 1
                            /\ Deliver(CompleteFrame(processors, current_frame,
                                                     gen_frame_index + 1))
                       ELSE UNCHANGED <<gen_frame_index, calls, tracker, sink,
                                        first_frame, batch>>
               ELSE /\ current_frame' = BuildStep(current_frame, row)
                    /\ UNCHANGED <<gen_frame_index, calls, tracker, sink,
                                   first_frame, batch>>
    /\ UNCHANGED <<othervars, mtlocals, input, batch_size, processors, sink_open, outcome>>

\* After the row loop: the last frame.
SeqLast ==
    /\ pc = "seq_read"
    /\ row_pos = Len(input)
    /\ pc' = "seq_flush"
    /\ IF current_frame.root # 0
       THEN /\ gen_frame_index' = gen_frame_index + 1
            /\ Deliver(LastFrame(processors, current_frame, gen_frame_index + 1))
       ELSE UNCHANGED <<gen_frame_index, calls, tracker, sink, first_frame, batch>>
    /\ UNCHANGED <<othervars, mtlocals, input, batch_size, processors, row_pos, current_frame,
                   sink_open, err, outcome>>

\* The remaining batch, then output_file.write(']')
SeqFlush ==
    /\ pc = "seq_flush"
    /\ sink' = Append(WriteFrames(sink, first_frame, batch, 1), SeqClose)
    /\ first_frame' = (first_frame /\ batch = <<>>)
    /\ pc' = "seq_finally"
    /\ UNCHANGED <<seqvars, othervars, mtlocals, input, batch_size, sink_open, err, outcome,
                   tracker>>

\* finally: output_file.close(); then return tracker.get_summary(), or the
\* exception goes on to the caller.
SeqFinally ==
    /\ pc = "seq_finally"
    /\ sink_open' = FALSE
    /\ outcome' = IF err # "none" THEN "raise" ELSE "summary"
    /\ pc' = "returned"
    /\ UNCHANGED <<seqvars, othervars, mtlocals, input, batch_size, sink, err, tracker,
                   first_frame>>

SeqNext ==
    \/ SeqOpen
    \/ SeqRow
    \/ SeqLast
    \/ SeqFlush
    \/ SeqFinally

SeqSpec == SeqInit /\ [][SeqNext]_vars

\* The sequential pipeline with a frame processor made with max_frame_count:
\* "Default" is the DefaultFrameProcessor BuildTreeV2.py imports, "Threshold"
\* the class of MultiThreadVersion.py.
SeqLimitInit ==
    /\ input \in RowSeqs
    /\ batch_size = 1
    /\ num_workers = 1
    /\ processors \in {"Default", "Threshold"}
    /\ max_frames = 0
    /\ max_frame_count \in 0..MaxFrames
    /\ SeqIdle
    /\ UtraceIdle
    /\ TrackerIdle
    /\ NameIdle
    /\ ExclusiveIdle
    /\ CoroutineIdle
    /\ InitState

SeqLimitSpec == SeqLimitInit /\ [][SeqNext]_vars

-----------------------------------------------------------------------------
(* One tracker object shared by NumThreads threads that each call          *)
(* track_frame once, and a reader that calls get_summary.  tk_kind is the  *)
(* class: "ThreadSafe" is ThreadSafePerformanceTracker, whose methods run  *)
(* under self._lock; "Plain" is Processor/PerformanceTracker.py, which has *)
(* no lock.  An augmented assignment loads the attribute and stores the    *)
(* sum in two steps.                                                       *)

Threads == 1..NumThreads

\* The frames the threads track.
TrackedFrames == { ProcessedFrame(0, EmptyDict, 2, 1, TRUE),
                   ProcessedFrame(1, EmptyDict, 1, 0, FALSE) }

\* The counters track_frame adds to, in the order of its statements.
Fields == <<"frame_count", "total_nodes", "filtered_nodes", "filtered_frames">>

\* What the statement for counter f adds.
Increment(f, processed_frame) ==
    CASE f = 1 -> 1
      [] f = 2 -> processed_frame.original_nodes
      [] f = 3 -> processed_frame.filtered_nodes
      [] f = 4 -> 1

\* The attributes get_summary reads, in the order its dict is built:
\* total_frames, filtered_frames, included_frames (a difference),
\* total_nodes, filtered_nodes, included_nodes (a difference).
ReadOrder == <<1, 4, 1, 4, 2, 3, 2, 3>>

\* The dict get_summary returns from the values v it read.
Summary(v) ==
    [total_frames |-> v[1],
     filtered_frames |-> v[2],
     included_frames |-> v[3] - v[4],
     total_nodes |-> v[5],
     filtered_nodes |-> v[6],
     included_nodes |-> v[7] - v[8]]

TrackerInit ==
    /\ tk_kind \in {"ThreadSafe", "Plain"}
    /\ tk_lock = -1
    /\ tk_pc = [t \in Threads |-> "call"]
    /\ tk_field = [t \in Threads |-> 1]
    /\ tk_reg = [t \in Threads |-> 0]
    /\ tk_frame \in [Threads -> TrackedFrames]
    /\ rd_pc = "call"
    /\ rd_vals = <<>>
    /\ input = <<>>
    /\ batch_size = 1
    /\ num_workers = 1
    /\ processors = "Default"
    /\ SeqIdle
    /\ UtraceIdle
    /\ AuxIdle
    /\ InitState

pipevars == <<input, batch_size, num_workers, pc, sink, sink_open, err, outcome,
              frame_data_list, batch_start, fut, processed_count, frame_buffer,
              next_frame_to_write, first_frame, remaining_frames, seqvars>>

\* with self._lock: (ThreadSafePerformanceTracker only), entered by who
Acquire(who) ==
    IF tk_kind = "ThreadSafe"
    THEN tk_lock = -1 /\ tk_lock' = who
    ELSE UNCHANGED tk_lock

\* The with block is left.
Release(who) ==
    IF tk_kind = "ThreadSafe"
    THEN tk_lock = who /\ tk_lock' = -1
    ELSE UNCHANGED tk_lock

\* Thread t enters track_frame.
TrackEnter(t) ==
    /\ tk_pc[t] = "call"
    /\ Acquire(t)
    /\ tk_pc' = [tk_pc EXCEPT ![t] = "load"]
    /\ UNCHANGED <<pipevars, utvars, auxvars, tracker, tk_kind, tk_field, tk_reg, tk_frame, rd_pc, rd_vals>>

\* self.<counter> += ...: the attribute is loaded
TrackLoad(t) ==
    /\ tk_pc[t] = "load"
    /\ tk_reg' = [tk_reg EXCEPT ![t] = tracker[Fields[tk_field[t]]]]
    /\ tk_pc' = [tk_pc EXCEPT ![t] = "store"]
    /\ UNCHANGED <<pipevars, utvars, auxvars, tracker, tk_kind, tk_lock, tk_field, tk_frame, rd_pc, rd_vals>>

\* self.<counter> += ...: the sum is stored; the next statement follows
\* (filtered_frames only under `if not included`).
TrackStore(t) ==
    /\ tk_pc[t] = "store"
    /\ tracker' = [tracker EXCEPT ![Fields[tk_field[t]]] =
                       tk_reg[t] + Increment(tk_field[t], tk_frame[t])]
    /\ IF tk_field[t] < 3 \/ (tk_field[t] = 3 /\ ~tk_frame[t].included)
       THEN /\ tk_field' = [tk_field EXCEPT ![t] = tk_field[t] + 1]
            /\ tk_pc' = [tk_pc EXCEPT ![t] = "load"]
       ELSE /\ tk_pc' = [tk_pc EXCEPT ![t] = "return"]
            /\ UNCHANGED tk_field
    /\ UNCHANGED <<pipevars, utvars, auxvars, tk_kind, tk_lock, tk_reg, tk_frame, rd_pc, rd_vals>>

\* Thread t leaves track_frame.
TrackReturn(t) ==
    /\ tk_pc[t] = "return"
    /\ Release(t)
    /\ tk_pc' = [tk_pc EXCEPT ![t] = "done"]
    /\ UNCHANGED <<pipevars, utvars, auxvars, tracker, tk_kind, tk_field, tk_reg, tk_frame, rd_pc, rd_vals>>

\* The reader enters get_summary.
ReadEnter ==
    /\ rd_pc = "call"
    /\ Acquire(0)
    /\ rd_pc' = "read"
    /\ UNCHANGED <<pipevars, utvars, auxvars, tracker, tk_kind, tk_pc, tk_field, tk_reg, tk_frame, rd_vals>>

\* The next attribute of the dict expression is read.
ReadField ==
    /\ rd_pc = "read"
    /\ rd_vals' = Append(rd_vals, tracker[Fields[ReadOrder[Len(rd_vals) + 1]]])
    /\ rd_pc' = IF Len(rd_vals) + 1 = Len(ReadOrder) THEN "return" ELSE "read"
    /\ UNCHANGED <<pipevars, utvars, auxvars, tracker, tk_kind, tk_lock, tk_pc, tk_field, tk_reg, tk_frame>>

\* get_summary returns Summary(rd_vals).
ReadReturn ==
    /\ rd_pc = "return"
    /\ Release(0)
    /\ rd_pc' = "returned"
    /\ UNCHANGED <<pipevars, utvars, auxvars, tracker, tk_kind, tk_pc, tk_field, tk_reg, tk_frame, rd_vals>>

TrackerNext ==
    \/ \E t \in Threads : TrackEnter(t)
    \/ \E t \in Threads : TrackLoad(t)
    \/ \E t \in Threads : TrackStore(t)
    \/ \E t \in Threads : TrackReturn(t)
    \/ ReadEnter
    \/ ReadField
    \/ ReadReturn

TrackerSpec == TrackerInit /\ [][TrackerNext]_vars

-----------------------------------------------------------------------------
(* BuildTree.py: UtraceHelper and run().  A line of the trace file is a    *)
(* record: tick, its event name is "FEngineLoop::Tick"; Start, End, Depth, *)
(* its numeric columns; bad, one of them does not parse.  Every line has   *)
(* its eight columns.  Times are integers.                                 *)

Line(tick, depth, start, end, bad) ==
    [tick |-> tick, Depth |-> depth, Start |-> start, End |-> end, bad |-> bad]

\* A frame's tick line, a tick line that does not parse, a child inside the
\* tick's interval, a child that ends with it, a grandchild, a grandchild
\* that starts inside the first child and ends after it, a child that
\* starts where the first child ends, a grandchild that starts there too,
\* and a line that does not parse.
LineKinds ==
    { Line(TRUE, 0, 0, 10, FALSE),
      Line(TRUE, 0, 0, 10, TRUE),
      Line(FALSE, 1, 2, 5, FALSE),
      Line(FALSE, 1, 5, 10, FALSE),
      Line(FALSE, 2, 3, 4, FALSE),
      Line(FALSE, 2, 4, 6, FALSE),
      Line(FALSE, 1, 5, 8, FALSE),
      Line(FALSE, 2, 5, 6, FALSE),
      Line(FALSE, 1, 2, 5, TRUE) }

LineSeqs == UNION { [1..n -> LineKinds] : n \in 0..MaxRows }

\* prepare_all_frame from line i on; current = <<>> stands for None.
RECURSIVE PrepareFrom(_, _, _, _)
PrepareFrom(lines, i, current, out) ==
    LET flushed == IF current # <<>> THEN Append(out, current) ELSE out IN
    IF i > Len(lines) THEN flushed
    ELSE IF lines[i].tick THEN PrepareFrom(lines, i + 1, <<lines[i]>>, flushed)
    ELSE PrepareFrom(lines, i + 1,
                     IF current # <<>> THEN Append(current, lines[i]) ELSE current,
                     out)

prepare_all_frame(lines) == PrepareFrom(lines, 1, <<>>, <<>>)

\* event_dict of a line that parses
Event(line) ==
    [event_start |-> line.Start, event_end |-> line.End, event_depth |-> line.Depth]

\* The sort key (event_depth, event_start) of a is not above that of b.
KeyLE(a, b) ==
    \/ a.event_depth < b.event_depth
    \/ a.event_depth = b.event_depth /\ a.event_start <= b.event_start

\* sorted(raw_data, key=...): stable, equal keys keep their order.
RECURSIVE Sorted(_)
Sorted(raw_data) ==
    IF raw_data = <<>> THEN <<>>
    ELSE LET e == raw_data[Len(raw_data)] IN
         Once(Sorted(SubSeq(raw_data, 1, Len(raw_data) - 1)),
              LAMBDA rest :
                 LET n == Cardinality({ i \in 1..Len(rest) : KeyLE(rest[i], e) })
                 IN SubSeq(rest, 1, n) \o <<e>> \o SubSeq(rest, n + 1, Len(rest)))

\* handle_single_frame: the lines that do not parse are passed over;
\* sorted_data[-1] raises IndexError when no line is left.  Levels below
\* the frame's max_depth are set anew, deeper entries of leveled_data stay.
handle_single_frame(ld, single_frame_info) ==
    LET parsed == SelectSeq(single_frame_info, LAMBDA line : ~line.bad)
        sorted_data == Sorted([i \in 1..Len(parsed) |-> Event(parsed[i])])
    IN IF sorted_data = <<>> THEN [raised |-> TRUE, leveled_data |-> ld]
       ELSE LET max_depth == sorted_data[Len(sorted_data)].event_depth + 1
                keys == IF Len(ld) > max_depth THEN Len(ld) ELSE max_depth
            IN [raised |-> FALSE,
                leveled_data |->
                   [l \in 1..keys |->
                       IF l <= max_depth
                       THEN SelectSeq(sorted_data, LAMBDA e : e.event_depth = l - 1)
                       ELSE ld[l]]]

\* A bisect_left that always answers 0.
BisectLeftZero(a, x) == 0

\* bisect.bisect_left / bisect_right on a sorted list
bisect_left(a, x) == Cardinality({ i \in 1..Len(a) : a[i] < x })
bisect_right(a, x) == Cardinality({ i \in 1..Len(a) : a[i] <= x })

\* A UtraceTreeNode: its event and the position of its parent (0: none).
UtraceTreeNode(data, parent) ==
    [event_start |-> data.event_start, event_end |-> data.event_end,
     event_depth |-> data.event_depth, parent |-> parent]

\* for father_node in current_nodes, from the j-th on: nodes are the tree's
\* nodes in creation order, next_nodes the positions of the new level.
RECURSIVE AttachLevel(_, _, _, _, _)
AttachLevel(nodes, current_nodes, j, next_events, next_nodes) ==
    IF j > Len(current_nodes) THEN [nodes |-> nodes, next_nodes |-> next_nodes]
    ELSE LET father == current_nodes[j]
             starts == [i \in 1..Len(next_events) |-> next_events[i].event_start]
             left_idx == bisect_left(starts, nodes[father].event_start)
             right_idx == bisect_right(starts, nodes[father].event_end)
             chosen == SelectSeq([i \in 1..(right_idx - left_idx) |-> next_events[left_idx + i]],
                                 LAMBDA child_event :
                                    child_event.event_end < nodes[father].event_end)
             added == [i \in 1..Len(chosen) |-> UtraceTreeNode(chosen[i], father)]
         IN AttachLevel(nodes \o added, current_nodes, j + 1, next_events,
                        next_nodes \o [i \in 1..Len(chosen) |-> Len(nodes) + i])

\* for current_level in range(max_depth), from current_level on
RECURSIVE BuildLevels(_, _, _, _)
BuildLevels(ld, nodes, current_nodes, current_level) ==
    IF current_level >= Len(ld) - 1 \/ current_level + 2 > Len(ld) THEN nodes
    ELSE Once(AttachLevel(nodes, current_nodes, 1, ld[current_level + 2], <<>>),
              LAMBDA r : BuildLevels(ld, r.nodes, r.next_nodes, current_level + 1))

\* build_tree: None for an empty leveled_data; leveled_data[0][0] raises
\* IndexError when level 0 is empty, and leveled_data is then left as it is.
build_tree(ld) ==
    IF ld = <<>> THEN [raised |-> FALSE, none |-> TRUE, nodes |-> <<>>, leveled_data |-> ld]
    ELSE IF ld[1] = <<>>
    THEN [raised |-> TRUE, none |-> FALSE, nodes |-> <<>>, leveled_data |-> ld]
    ELSE [raised |-> FALSE, none |-> FALSE,
          nodes |-> BuildLevels(ld, <<UtraceTreeNode(ld[1][1], 0)>>, <<1>>, 0),
          leveled_data |-> <<>>]

\* What run() prints for a frame: the tree, or the exception it caught.
Printed(raised, nodes) == [raised |-> raised, nodes |-> nodes]

UtraceInit ==
    /\ ut_lines \in LineSeqs
    /\ ut_pc = "prepare"
    /\ all_frame = <<>>
    /\ ut_pos = 0
    /\ leveled_data = <<>>
    /\ ut_out = <<>>
    /\ input = <<>>
    /\ batch_size = 1
    /\ num_workers = 1
    /\ processors = "Default"
    /\ SeqIdle
    /\ TrackerIdle
    /\ AuxIdle
    /\ InitState

\* helper.prepare_all_frame()
UtPrepare ==
    /\ ut_pc = "prepare"
    /\ all_frame' = prepare_all_frame(ut_lines)
    /\ ut_pc' = IF prepare_all_frame(ut_lines) = <<>> THEN "done" ELSE "handle"
    /\ UNCHANGED <<pipevars, tracker, tkvars, auxvars, ut_lines, ut_pos, leveled_data, ut_out>>

\* helper.handle_single_frame(single_frame); an exception goes to run()'s
\* except clause, which prints it, and the loop goes on.
UtHandle ==
    /\ ut_pc = "handle"
    /\ LET r == handle_single_frame(leveled_data, all_frame[ut_pos + 1]) IN
       /\ leveled_data' = r.leveled_data
       /\ IF r.raised
          THEN /\ ut_out' = Append(ut_out, Printed(TRUE, <<>>))
               /\ ut_pos' = ut_pos + 1
               /\ ut_pc' = IF ut_pos + 1 = Len(all_frame) THEN "done" ELSE "handle"
          ELSE /\ ut_pc' = "build"
               /\ UNCHANGED <<ut_out, ut_pos>>
    /\ UNCHANGED <<pipevars, tracker, tkvars, auxvars, ut_lines, all_frame>>

\* T = helper.build_tree(); node = T.to_dict(); print: T.to_dict() raises
\* AttributeError when T is None.
UtBuild ==
    /\ ut_pc = "build"
    /\ LET r == build_tree(leveled_data) IN
       /\ leveled_data' = r.leveled_data
       /\ ut_out' = Append(ut_out, Printed(r.raised \/ r.none, r.nodes))
    /\ ut_pos' = ut_pos + 1
    /\ ut_pc' = IF ut_pos + 1 = Len(all_frame) THEN "done" ELSE "handle"
    /\ UNCHANGED <<pipevars, tracker, tkvars, auxvars, ut_lines, all_frame>>

UtraceNext ==
    \/ UtPrepare
    \/ UtHandle
    \/ UtBuild

UtraceSpec == UtraceInit /\ [][UtraceNext]_vars

-----------------------------------------------------------------------------
(* The two tree builders on the same frame: the stack builder of           *)
(* process_single_frame, one row per step, and UtraceHelper's interval     *)
(* builder, over the lines of one frame.                                   *)

\* The lines of one frame: a tick line, then lines that are no tick lines.
FrameLineSeqs ==
    { s \in LineSeqs : s # <<>> /\ s[1].tick /\ \A k \in 2..Len(s) : ~s[k].tick }

\* The row the stack builder reads for a line: a line that does not parse
\* makes int() or float() raise.
RowOf(line) ==
    [Depth |-> line.Depth, Duration |-> line.End - line.Start,
     bad |-> IF line.bad THEN "TimerId" ELSE "none"]

BuildersInit ==
    /\ ut_lines \in FrameLineSeqs
    /\ ut_pc = "prepare"
    /\ all_frame = <<>>
    /\ ut_pos = 0
    /\ leveled_data = <<>>
    /\ ut_out = <<>>
    /\ input = <<>>
    /\ batch_size = 1
    /\ num_workers = 1
    /\ processors = "Threshold"
    /\ SeqIdle
    /\ TrackerIdle
    /\ AuxIdle
    /\ InitState

\* One iteration of `for row in frame_data.rows`.
StackRow ==
    /\ row_pos < Len(ut_lines)
    /\ row_pos' = row_pos + 1
    /\ current_frame' = BuildStep(current_frame, RowOf(ut_lines[row_pos + 1]))
    /\ UNCHANGED <<input, batch_size, num_workers, pc, sink, sink_open, err, outcome,
                   frame_data_list, batch_start, fut, processed_count, frame_buffer,
                   next_frame_to_write, first_frame, remaining_frames, tracker,
                   processors, gen_frame_index, batch, calls, othervars>>

BuildersNext ==
    \/ StackRow
    \/ UtPrepare
    \/ UtHandle
    \/ UtBuild

BuildersSpec == BuildersInit /\ [][BuildersNext]_vars

-----------------------------------------------------------------------------
(* The name processors: DefaultTimerNameProcessor.process_timer_name of    *)
(* MultiThreadVersion.py and of Processor/DefaultProcessors.py.  A name is *)
(* a sequence of characters.                                               *)

MaxName == 5

NameChars == {"S", "T", "A", "_", "x"}

Names == UNION { [1..n -> NameChars] : n \in 0..MaxName }

\* re.sub(r'^STAT_', '', name)
RemoveStatPrefix(name) ==
    IF Len(name) >= 5 /\ SubSeq(name, 1, 5) = <<"S", "T", "A", "T", "_">>
    THEN SubSeq(name, 6, Len(name)) ELSE name

\* re.sub(r'_+', '_', name): a run of underscores becomes one.
CollapseUnderscores(name) ==
    LET keep == { i \in 1..Len(name) : ~(name[i] = "_" /\ i > 1 /\ name[i - 1] = "_") }
        idx == SelectSeq([i \in 1..Len(name) |-> i], LAMBDA i : i \in keep)
    IN [k \in 1..Len(idx) |-> name[idx[k]]]

\* re.sub(r'^_|_$', '', name): an underscore at the start and one at the
\* end are removed.
StripUnderscores(name) ==
    LET keep == { i \in 1..Len(name) :
                     ~(name[i] = "_" /\ (i = 1 \/ i = Len(name))) }
        idx == SelectSeq([i \in 1..Len(name) |-> i], LAMBDA i : i \in keep)
    IN [k \in 1..Len(idx) |-> name[idx[k]]]

\* MultiThreadVersion.py: the cleanup patterns applied in order.
MultiThread_process_timer_name(timer_name) ==
    StripUnderscores(CollapseUnderscores(RemoveStatPrefix(timer_name)))

\* The name Processor/DefaultProcessors.py gives to an empty timer name.
FrameKento == <<"FrameKento">>

\* Processor/DefaultProcessors.py: the cleanup is commented out, an empty
\* name becomes "FrameKento".
Processor_process_timer_name(timer_name) ==
    IF timer_name = <<>> THEN FrameKento ELSE timer_name

process_timer_name(class, timer_name) ==
    IF class = "MultiThread" THEN MultiThread_process_timer_name(timer_name)
    ELSE Processor_process_timer_name(timer_name)

NameInit ==
    /\ tn_class \in {"MultiThread", "Processor"}
    /\ tn_name \in Names
    /\ tn_pc = "call"
    /\ tn_out = <<>>
    /\ input = <<>>
    /\ batch_size = 1
    /\ num_workers = 1
    /\ processors = "Threshold"
    /\ SeqIdle
    /\ UtraceIdle
    /\ TrackerIdle
    /\ ExclusiveIdle
    /\ CoroutineIdle
    /\ NoLimit
    /\ InitState

\* processed_timer_name = timer_processor.process_timer_name(timer_name, ...)
NormalizeName ==
    /\ tn_pc = "call"
    /\ tn_out' = process_timer_name(tn_class, tn_name)
    /\ tn_pc' = "done"
    /\ UNCHANGED <<pipevars, tracker, tkvars, utvars, exvars, covars, lmvars, tn_class, tn_name>>

NameNext == NormalizeName

NameSpec == NameInit /\ [][NameNext]_vars

-----------------------------------------------------------------------------
(* base/thread_safe_exclusive.py: one ThreadSafeExclusive object shared by *)
(* NumThreads threads.  A thread calls occupy with its own number as       *)
(* argument, and a thread whose occupy returned True calls release.  A     *)
(* thread switch can fall between any two statements.                      *)

ExclusiveInit ==
    /\ ex_lock = FALSE
    /\ ex_occupier = 0
    /\ ex_pc = [t \in Threads |-> "idle"]
    /\ ex_ret = [t \in Threads |-> "none"]
    /\ input = <<>>
    /\ batch_size = 1
    /\ num_workers = 1
    /\ processors = "Threshold"
    /\ SeqIdle
    /\ UtraceIdle
    /\ TrackerIdle
    /\ NameIdle
    /\ CoroutineIdle
    /\ NoLimit
    /\ InitState

exrest == <<pipevars, tracker, tkvars, utvars, nmvars, covars, lmvars>>

\* Thread t calls occupy(t).
OccupyCall(t) ==
    /\ ex_pc[t] = "idle"
    /\ ex_pc' = [ex_pc EXCEPT ![t] = "check"]
    /\ UNCHANGED <<exrest, ex_lock, ex_occupier, ex_ret>>

\* if self.lock.locked(): return False
OccupyCheck(t) ==
    /\ ex_pc[t] = "check"
    /\ IF ex_lock
       THEN /\ ex_pc' = [ex_pc EXCEPT ![t] = "idle"]
            /\ ex_ret' = [ex_ret EXCEPT ![t] = "False"]
       ELSE /\ ex_pc' = [ex_pc EXCEPT ![t] = "set"]
            /\ UNCHANGED ex_ret
    /\ UNCHANGED <<exrest, ex_lock, ex_occupier>>

\* self.occupier = occupier
OccupySet(t) ==
    /\ ex_pc[t] = "set"
    /\ ex_occupier' = t
    /\ ex_pc' = [ex_pc EXCEPT ![t] = "acquire"]
    /\ UNCHANGED <<exrest, ex_lock, ex_ret>>

\* self.lock.acquire(), which waits while the lock is locked; return True
OccupyAcquire(t) ==
    /\ ex_pc[t] = "acquire"
    /\ ~ex_lock
    /\ ex_lock' = TRUE
    /\ ex_pc' = [ex_pc EXCEPT ![t] = "holding"]
    /\ ex_ret' = [ex_ret EXCEPT ![t] = "True"]
    /\ UNCHANGED <<exrest, ex_occupier>>

\* release(): self.occupier = None
ReleaseClear(t) ==
    /\ ex_pc[t] = "holding"
    /\ ex_occupier' = 0
    /\ ex_pc' = [ex_pc EXCEPT ![t] = "rel_check"]
    /\ UNCHANGED <<exrest, ex_lock, ex_ret>>

\* if self.lock.locked():
ReleaseCheck(t) ==
    /\ ex_pc[t] = "rel_check"
    /\ ex_pc' = [ex_pc EXCEPT ![t] = IF ex_lock THEN "rel_unlock" ELSE "idle"]
    /\ UNCHANGED <<exrest, ex_lock, ex_occupier, ex_ret>>

\* self.lock.release()
ReleaseUnlock(t) ==
    /\ ex_pc[t] = "rel_unlock"
    /\ ex_lock' = FALSE
    /\ ex_pc' = [ex_pc EXCEPT ![t] = "idle"]
    /\ UNCHANGED <<exrest, ex_occupier, ex_ret>>

ExclusiveNext ==
    \E t \in Threads :
        \/ OccupyCall(t)
        \/ OccupyCheck(t)
        \/ OccupySet(t)
        \/ OccupyAcquire(t)
        \/ ReleaseClear(t)
        \/ ReleaseCheck(t)
        \/ ReleaseUnlock(t)

ExclusiveSpec == ExclusiveInit /\ [][ExclusiveNext]_vars

-----------------------------------------------------------------------------
(* base/coroutine_parallel.py: one StoppableCoroutineParallel object that  *)
(* is started once, whose run() awaits through coroutine_await, and a      *)
(* caller that calls stop().  The event loop runs one task at a time; a    *)
(* step is the code between two suspension points.                         *)

MaxAwaits == 2

\* The results of the awaited coroutines and the default_ret arguments.
CoResults == {"r1", "r2"}
CoDefaults == {"None", "d1"}

\* CoroutineParallel.is_alive: False without a task, else task.done().
is_alive == IF co_task = "none" THEN FALSE ELSE co_task = "finished"

\* The property running without the test of the future's done().
RunningWhenStarted == co_future # "none"

\* The property running: started and the future not done.
running == co_future = "pending"

\* coroutine_await after asyncio.wait has returned, without the test of
\* self.running.
AwaitReturnsResult(is_running, result, default_ret) == result

\* coroutine_await after asyncio.wait has returned
coroutine_await_return(is_running, result, default_ret) ==
    IF ~is_running THEN default_ret ELSE result

CoroutineInit ==
    /\ co_task = "none"
    /\ co_future = "none"
    /\ co_stop = "no"
    /\ co_await = NoAwait
    /\ co_calls = 0
    /\ co_ret = "unset"
    /\ input = <<>>
    /\ batch_size = 1
    /\ num_workers = 1
    /\ processors = "Threshold"
    /\ SeqIdle
    /\ UtraceIdle
    /\ TrackerIdle
    /\ NameIdle
    /\ ExclusiveIdle
    /\ NoLimit
    /\ InitState

corest == <<pipevars, tracker, tkvars, utvars, nmvars, exvars, lmvars>>

\* start(): asyncio.create_task(self.__run_wrapper())
CoStart ==
    /\ co_task = "none"
    /\ co_task' = "created"
    /\ UNCHANGED <<corest, co_future, co_stop, co_await, co_calls, co_ret>>

\* __run_wrapper up to its first suspension: the future is created and
\* run() begins.
CoWrapperBegin ==
    /\ co_task = "created"
    /\ co_future' = "pending"
    /\ co_task' = "running"
    /\ UNCHANGED <<corest, co_stop, co_await, co_calls, co_ret>>

\* stop(), called after start(), any number of times: RuntimeError when the
\* future does not exist yet, else the future's result is set when it is
\* still pending.
CoStop ==
    /\ co_task # "none"
    /\ IF co_future = "none"
       THEN /\ co_stop' = "raised"
            /\ UNCHANGED co_future
       ELSE /\ co_stop' = "called"
            /\ co_future' = IF running THEN "Cancelled" ELSE co_future
    /\ UNCHANGED <<corest, co_task, co_await, co_calls, co_ret>>

\* run() calls coroutine_await(coroutine, default_ret) and is suspended in
\* asyncio.wait.
CoAwaitCall(r, d) ==
    /\ co_task = "running"
    /\ co_await = NoAwait
    /\ co_calls < MaxAwaits
    /\ co_await' = [awaited |-> "pending", result |-> r, default_ret |-> d]
    /\ co_calls' = co_calls + 1
    /\ UNCHANGED <<corest, co_task, co_future, co_stop, co_ret>>

\* The awaited coroutine completes.
CoAwaitedDone ==
    /\ co_await.awaited = "pending"
    /\ co_await' = [co_await EXCEPT !.awaited = "done"]
    /\ UNCHANGED <<corest, co_task, co_future, co_stop, co_calls, co_ret>>

\* asyncio.wait returns (FIRST_COMPLETED) and coroutine_await returns.
CoAwaitResume ==
    /\ co_await # NoAwait
    /\ co_await.awaited = "done" \/ co_future # "pending"
    /\ co_ret' = coroutine_await_return(running, co_await.result, co_await.default_ret)
    /\ co_await' = NoAwait
    /\ UNCHANGED <<corest, co_task, co_future, co_stop, co_calls>>

\* run() returns; __run_wrapper sets the future's result when still running.
CoRunReturn ==
    /\ co_task = "running"
    /\ co_await = NoAwait
    /\ co_task' = "finished"
    /\ co_future' = IF running THEN "Done" ELSE co_future
    /\ UNCHANGED <<corest, co_stop, co_await, co_calls, co_ret>>

CoroutineNext ==
    \/ CoStart
    \/ CoWrapperBegin
    \/ CoStop
    \/ \E r \in CoResults, d \in CoDefaults : CoAwaitCall(r, d)
    \/ CoAwaitedDone
    \/ CoAwaitResume
    \/ CoRunReturn

CoroutineSpec == CoroutineInit /\ [][CoroutineNext]_vars

-----------------------------------------------------------------------------
(* Definitions the properties share                                        *)

FrameIndices == 0..(total_frames - 1)

\* What the worker pipeline computes for frame i of frame_data_list.
Result(i) == FrameBody(frame_data_list[i + 1])

\* Frame i's worker pipeline raises.
WorkerRaises(i) == BuildTree(frame_data_list[i + 1].rows).raised

\* Positions of the first / last chunk of an object of frame k in the sink.
Heads(k) == { p \in 1..Len(sink) : sink[p].kind = "head" /\ sink[p].d.frame_index = k }
Tails(k) == { p \in 1..Len(sink) : sink[p].kind = "tail" /\ sink[p].d.frame_index = k }

\* Frame k's object is in the sink, whole.
Written(k) == Heads(k) # {} /\ Tails(k) # {}

\* Every object in the sink is whole: its chunks are adjacent and in order.
ObjectsWhole ==
    /\ \A p \in 1..Len(sink) : sink[p].kind = "head" =>
          p < Len(sink) /\ sink[p + 1].kind = "tail" /\ sink[p + 1].d = sink[p].d
    /\ \A p \in 1..Len(sink) : sink[p].kind = "tail" =>
          p > 1 /\ sink[p - 1].kind = "head"

FinishedNormally == pc = "returned" /\ err = "none" /\ outcome = "summary"

-----------------------------------------------------------------------------
(* Properties                                                              *)

\* C1: the frame objects in the sink are in strictly increasing frame-index
\* order and none is interleaved with another: every object's chunks are
\* adjacent, and an object that starts later has a larger frame index.
C1_OrderedOutput ==
    /\ \A p \in 1..Len(sink) : sink[p].kind = "head" /\ p < Len(sink) =>
          sink[p + 1].kind = "tail" /\ sink[p + 1].d = sink[p].d
    /\ \A p \in 1..Len(sink) : sink[p].kind = "tail" =>
          p > 1 /\ sink[p - 1].kind = "head"
    /\ \A p, q \in 1..Len(sink) :
          p < q /\ sink[p].kind = "head" /\ sink[q].kind = "head" =>
             sink[p].d.frame_index < sink[q].d.frame_index

\* C1 witness: two frames completed in the opposite of their index order
\* (the dict holds the larger key first) and both objects are in the sink.
C1_Witness ==
    /\ FinishedNormally
    /\ num_workers > 1
    /\ \E p, q \in 1..Len(frame_buffer) :
          /\ p < q
          /\ frame_buffer[p].key > frame_buffer[q].key
          /\ Written(frame_buffer[p].key)
          /\ Written(frame_buffer[q].key)

\* C2: after a normal finish every included frame has exactly one object in
\* the sink, with the dict its pipeline produced, and no other frame has one.
C2_WrittenExactlyOnce ==
    FinishedNormally =>
        \A i \in FrameIndices :
            LET k == frame_data_list[i + 1].frame_index IN
            IF Result(i).included
            THEN /\ Cardinality(Heads(k)) = 1
                 /\ Cardinality(Tails(k)) = 1
                 /\ \A p \in Heads(k) : sink[p].d = Result(i).frame_dict
            ELSE Heads(k) = {} /\ Tails(k) = {}

\* C2 witness: a finished run in which the per-batch drain wrote one frame
\* and the final flush wrote another.
C2_Witness ==
    /\ FinishedNormally
    /\ next_frame_to_write > 0
    /\ frame_buffer # <<>>
    /\ \A e \in Keys(frame_buffer) : Written(e)

\* C3 (the claim as stated): when a batch's drain has ended, the expected
\* index does not rest on a completed excluded frame with a completed
\* included frame of larger index held in the buffer behind it.
C3_ExcludedAdvances ==
    pc \in {"submit", "final"} =>
        ~ ( /\ next_frame_to_write \in FrameIndices
            /\ next_frame_to_write < batch_start
            /\ ~Result(next_frame_to_write).included
            /\ \E j \in Keys(frame_buffer) : j > next_frame_to_write )

\* C4 (the claim as stated): the pending-results map never holds more than
\* batch_size entries.
C4_BufferBounded == Len(frame_buffer) <= batch_size

\* C5: an exception in one frame's worker pipeline stays with that frame.
\* After a run whose segmentation succeeded, no error is recorded, every
\* frame was handled and tracked, the frames that are not included (the
\* raising ones among them) are the tracker's filtered frames and have no
\* object in the sink, and every included frame is written.
C5_WorkerExceptionContained ==
    (pc = "returned" /\ ~read_csv_and_split_frames(input, 0).raised) =>
        /\ err = "none"
        /\ processed_count = total_frames
        /\ tracker.frame_count = total_frames
        /\ tracker.filtered_frames =
              Cardinality({ i \in FrameIndices : ~Result(i).included })
        /\ \A i \in FrameIndices :
              /\ WorkerRaises(i) => ~Result(i).included /\ Heads(i) = {}
              /\ Result(i).included => Written(i)

\* C5 witness: a frame's pipeline raised, and an included frame of the same
\* batch and one of a later batch are both written.
C5_Witness ==
    /\ FinishedNormally
    /\ \E i, j, k \in FrameIndices :
          /\ WorkerRaises(i)
          /\ j # i /\ (j \div batch_size) = (i \div batch_size)
          /\ (k \div batch_size) > (i \div batch_size)
          /\ Result(j).included /\ Written(j)
          /\ Result(k).included /\ Written(k)

\* C6: under fair scheduling the run ends, and when no error ended it every
\* segmented frame was handled and every included frame is in the sink.
C6_Terminates ==
    <>( /\ pc = "returned"
        /\ err = "none" =>
              /\ processed_count = total_frames
              /\ \A i \in FrameIndices : Result(i).included => Written(i) )

\* C6 witness: a finished run with a frame the filter excluded, a frame
\* whose worker failed, and an included frame after both, written.
C6_Witness ==
    /\ FinishedNormally
    /\ processed_count = total_frames
    /\ \E i, j, k \in FrameIndices :
          /\ ~WorkerRaises(i) /\ ~Result(i).included
          /\ WorkerRaises(j)
          /\ k > i /\ k > j
          /\ Result(k).included /\ Written(k)

\* The array the claim of C7 expects for the frames fs[from..].
RECURSIVE ExpectedObjects(_, _, _)
ExpectedObjects(fs, from, first) ==
    IF from > Len(fs) THEN <<>>
    ELSE LET r == FrameBody(fs[from]) IN
         IF r.included
         THEN (IF first THEN <<>> ELSE <<Comma>>)
              \o <<Chunk("head", r.frame_dict), Chunk("tail", r.frame_dict)>>
              \o ExpectedObjects(fs, from + 1, FALSE)
         ELSE ExpectedObjects(fs, from + 1, first)

\* C7 (the claim as stated): when the function has returned, the sink holds
\* one opening bracket, the included frames' objects with one separator
\* between neighbours, and one closing bracket.
C7_SinkIsArray ==
    pc = "returned" =>
        sink = <<Open>> \o ExpectedObjects(frame_data_list, 1, TRUE) \o <<Close>>

\* C8 (the claim as stated): after a run that was aborted or failed, the
\* sink is closed and holds a valid array: opening bracket, whole objects,
\* closing bracket.
C8_AbortLeavesValidArray ==
    (pc = "returned" /\ err # "none") =>
        /\ ~sink_open
        /\ sink # <<>>
        /\ sink[1] = Open
        /\ sink[Len(sink)] = Close
        /\ ObjectsWhole

\* C9 (the claim as stated): after a write failure the sink is closed and
\* the error reaches the caller instead of a summary.
C9_SinkFailurePropagates ==
    (pc = "returned" /\ err = "OSError") =>
        /\ ~sink_open
        /\ outcome = "raise"

\* The input with its malformed rows left out.
CleanInput == SelectSeq(input, LAMBDA r : r.bad = "none")

RECURSIVE SumOriginal(_, _)
SumOriginal(fs, from) ==
    IF from > Len(fs) THEN 0
    ELSE FrameBody(fs[from]).original_nodes + SumOriginal(fs, from + 1)

\* C10 (the claim as stated): malformed rows are skipped and are not fatal.
\* The run ends without error and has tracked the frames and the nodes of
\* the input without its malformed rows.
C10_MalformedRowSkipped ==
    pc = "returned" =>
        LET fs == read_csv_and_split_frames(CleanInput, 0).frames IN
        /\ err = "none"
        /\ tracker.frame_count = Len(fs)
        /\ tracker.total_nodes = SumOriginal(fs, 1)

-----------------------------------------------------------------------------
(* Properties of the statistics, the filters and the frame index           *)

\* The nodes of the objects in the sink.
RECURSIVE OutputNodes(_, _)
OutputNodes(s, from) ==
    IF from > Len(s) THEN 0
    ELSE (IF s[from].kind = "head" THEN Len(s[from].d.nodes) ELSE 0)
         + OutputNodes(s, from + 1)

\* C11 (the claim as stated): after a complete run over a trace whose rows
\* all parse and whose first row is a frame root, the tracker's total node
\* count is the number of rows, and the nodes in the output plus the nodes
\* the summary reports as not in the output make up the rows.
C11_NodesAccounted ==
    (FinishedNormally /\ input # <<>> /\ input[1].Depth = 0) =>
        /\ get_summary(tracker).total_nodes = Len(input)
        /\ OutputNodes(sink, 1)
              + (get_summary(tracker).total_nodes - get_summary(tracker).filtered_nodes)
              = Len(input)

\* The frames of the input: its depth-0 rows.
FrameRows == { i \in 1..Len(input) : input[i].Depth = 0 }

\* C12 (the claim as stated): after a run of the sequential pipeline the
\* tracker has been updated once for every frame of the input, the last
\* frame included, whether the frame was included or excluded: the
\* summary's total_frames is the number of frames.
C12_TrackedOncePerFrame ==
    FinishedNormally =>
        get_summary(tracker).total_frames = Cardinality(FrameRows)

\* The counters after the track_frame calls of the threads in T, each run
\* as a whole.
RECURSIVE TrackAll(_)
TrackAll(T) ==
    IF T = {} THEN NewTracker
    ELSE LET t == CHOOSE x \in T : TRUE
         IN track_frame(TrackAll(T \ {t}), tk_frame[t])

\* C13 (the claim as stated): with several threads in track_frame and a
\* reader in get_summary on one tracker, of either class, the summary
\* returned is the summary of the counters after a whole number of
\* track_frame calls, and once every call has returned the counters hold
\* all of them: no update is lost.
C13_ConsistentSnapshot ==
    /\ rd_pc = "returned" =>
          \E T \in SUBSET Threads : Summary(rd_vals) = get_summary(TrackAll(T))
    /\ (rd_pc # "idle" /\ \A t \in Threads : tk_pc[t] = "done") =>
          tracker = TrackAll(Threads)

\* The same for ThreadSafePerformanceTracker alone.
ThreadSafeConsistent == tk_kind = "ThreadSafe" => C13_ConsistentSnapshot

\* The frame dicts written to the sink.
OutputFrames == { sink[p].d : p \in { q \in 1..Len(sink) : sink[q].kind = "head" } }

\* C14 (the claim as stated): no node shorter than the configured
\* min_node_duration is in an output tree.
C14_NoShortNodeInOutput ==
    \A d \in OutputFrames :
        \A k \in 1..Len(d.nodes) : ~(d.nodes[k].duration < min_duration)

\* C15 (the claim as stated): no frame whose root is shorter than the
\* configured min_frame_duration is in the output.
C15_NoShortFrameInOutput ==
    \A d \in OutputFrames :
        \A k \in 1..Len(d.nodes) :
            d.nodes[k].depth = 0 => ~(d.nodes[k].duration < min_frame_duration)

\* Node k passes should_include_node and so does every ancestor of k up
\* to root.
RECURSIVE Kept(_, _, _)
Kept(nodes, root, k) ==
    /\ should_include_node(nodes[k])
    /\ \/ k = root
       \/ nodes[k].parent # 0 /\ Kept(nodes, root, nodes[k].parent)

\* The futures whose unit has run.
Finished == { i \in DOMAIN fut : fut[i].state \in {"done", "consumed"} }

\* The frame of future i has a root and passes the frame filter, so that
\* filter_tree_nodes is applied to its tree.
Filtered(i) ==
    LET t == BuildTree(frame_data_list[i + 1].rows) IN
    /\ ~t.raised
    /\ t.root # 0
    /\ should_include_frame(t.nodes[t.root], frame_data_list[i + 1].frame_index)

\* C16: the tree filter_tree_nodes returns holds exactly the nodes that
\* pass should_include_node together with all their ancestors, each as it
\* was built (same parent) and in the original order; it returns nothing
\* exactly when the root fails; and it asks should_include_node at most
\* once per node.
C16_FilterExact ==
    \A i \in Finished : Filtered(i) =>
        LET t == BuildTree(frame_data_list[i + 1].rows)
            r == fut[i].result
        IN /\ r.included <=> should_include_node(t.nodes[t.root])
           /\ r.frame_dict.nodes =
                 SelectSeq(t.nodes, LAMBDA n : Kept(t.nodes, t.root, n.row))
           /\ \A k \in 1..Len(t.nodes) :
                 Cardinality({ c \in 1..Len(r.calls) :
                                  r.calls[c] = Call("should_include_node", k) }) <= 1

\* C16 witness: a filtered frame in which a node fails while its child
\* passes, and a later sibling of the failing node is kept.
C16_Witness ==
    \E i \in Finished :
        /\ Filtered(i)
        /\ fut[i].result.included
        /\ LET t == BuildTree(frame_data_list[i + 1].rows) IN
           \E a, b, c \in 1..Len(t.nodes) :
              /\ a < b /\ b < c
              /\ ~should_include_node(t.nodes[a])
              /\ t.nodes[b].parent = a /\ should_include_node(t.nodes[b])
              /\ t.nodes[c].parent = t.nodes[a].parent
              /\ \E n \in 1..Len(fut[i].result.frame_dict.nodes) :
                    fut[i].result.frame_dict.nodes[n].row = c

\* In the sequential generator's call log: the should_include_frame calls,
\* the calls that follow call s up to the next should_include_frame, and
\* whether the frame of call s was rejected (no process_frame follows).
SifPos == { c \in 1..Len(calls) : calls[c].op = "should_include_frame" }

SegmentOf(s) ==
    { c \in (s + 1)..Len(calls) : \A x \in SifPos : x > s => c < x }

Rejected(s) == s = Len(calls) \/ calls[s + 1].op # "process_frame"

NodeCalls == { c \in 1..Len(calls) : calls[c].op \in {"should_include_node", "process_node"} }

\* The number of rows of the k-th frame of the input (k from 1): from its
\* depth-0 row up to the next one.
FrameSize(k) ==
    LET a == CHOOSE i \in FrameRows : Cardinality({ j \in FrameRows : j <= i }) = k
        later == { j \in FrameRows : j > a }
    IN (IF later = {} THEN Len(input) + 1 ELSE Min(later)) - a

\* C17 (the claim as stated), on the sequential pipeline: every frame has
\* one should_include_frame call, no node is tested or processed before
\* it, and for a rejected frame no node call follows while the frame's
\* original node count is still reported to the tracker.
C17_FrameFilterFirst ==
    FinishedNormally =>
        /\ Cardinality(SifPos) = Cardinality(FrameRows)
        /\ \A c \in NodeCalls : \E s \in SifPos : s < c
        /\ \A s \in SifPos : Rejected(s) =>
              /\ SegmentOf(s) \cap NodeCalls = {}
              /\ \E c \in SegmentOf(s) :
                    calls[c] = Call("track_frame",
                                    FrameSize(Cardinality({ x \in SifPos : x <= s })))

\* The same on the concurrent pipeline, for the result of every frame that
\* has a root.
FrameFilterFirstConcurrent ==
    \A i \in Finished :
        LET t == BuildTree(frame_data_list[i + 1].rows)
            r == fut[i].result
        IN (~t.raised /\ t.root # 0) =>
              /\ r.calls # <<>>
              /\ r.calls[1].op = "should_include_frame"
              /\ \A c \in 2..Len(r.calls) : r.calls[c].op # "should_include_frame"
              /\ ~Filtered(i) =>
                    /\ Len(r.calls) = 1
                    /\ r.original_nodes = Len(frame_data_list[i + 1].rows)

\* The rows of the frames fs[from..], one after the other.
RECURSIVE ConcatRows(_, _)
ConcatRows(fs, from) ==
    IF from > Len(fs) THEN <<>>
    ELSE fs[from].rows \o ConcatRows(fs, from + 1)

\* The segmenter has run to the end of the row stream.
Segmented == pc \notin {"start", "segment"} /\ err # "ValueError"

\* C18: the groups read_csv_and_split_frames emits (no max_frames) are a
\* partition of the row stream: one after the other they are the input
\* rows in order, none is empty, and a depth-0 row is always the first row
\* of its group; the group open at the end of the stream is therefore the
\* last one emitted.
C18_SegmenterPartitions ==
    Segmented =>
        /\ ConcatRows(frame_data_list, 1) = input
        /\ \A f \in 1..Len(frame_data_list) :
              /\ frame_data_list[f].rows # <<>>
              /\ \A j \in 2..Len(frame_data_list[f].rows) :
                    frame_data_list[f].rows[j].Depth # 0

\* C18 witness: a segmented stream that starts with a row of depth 1, has
\* two depth-0 rows and ends inside the second frame.
C18_Witness ==
    /\ Segmented
    /\ Len(input) = MaxRows
    /\ input[1].Depth # 0
    /\ Cardinality(FrameRows) = 2
    /\ input[Len(input)].Depth # 0
    /\ Len(frame_data_list) = 3

\* C19 (the claim as stated), on the sequential pipeline: the k-th frame
\* of the input, k counted from 0, is passed to should_include_frame and
\* to process_frame with frame_index = k.
C19_ZeroBasedIndex ==
    \A s \in SifPos :
        LET k == Cardinality({ x \in SifPos : x < s }) IN
        /\ calls[s].arg = k
        /\ ~Rejected(s) => calls[s + 1].arg = k

\* The same on the concurrent pipeline: frame i of the segmenter's list has
\* frame_index i and its frame processor calls are given i.
ZeroBasedIndexConcurrent ==
    /\ \A i \in FrameIndices : frame_data_list[i + 1].frame_index = i
    /\ \A i \in Finished :
          \A c \in 1..Len(fut[i].result.calls) :
              fut[i].result.calls[c].op \in {"should_include_frame", "process_frame"}
                 => fut[i].result.calls[c].arg = i

\* The events of a row group that parse, and whether one of them has depth 0.
GroupEvents(g) ==
    LET parsed == SelectSeq(g, LAMBDA line : ~line.bad)
    IN { Event(parsed[i]) : i \in 1..Len(parsed) }

HasDepth0(g) == \E e \in GroupEvents(g) : e.event_depth = 0

\* C20 (the claim as stated), on BuildTree.py's builder: no frame run() has
\* handled ended in an exception; a row group with a depth-0 row gave one
\* tree, rooted at a depth-0 row of the group and made of the group's rows;
\* a row group without one gave the empty result.
C20_BuilderNeverRaises ==
    \A k \in 1..Len(ut_out) :
        LET g == all_frame[k]
            nodes == ut_out[k].nodes
        IN /\ ~ut_out[k].raised
           /\ HasDepth0(g) =>
                 /\ nodes # <<>>
                 /\ nodes[1].event_depth = 0
                 /\ \A n \in 1..Len(nodes) :
                       /\ (nodes[n].parent = 0) = (n = 1)
                       /\ [event_start |-> nodes[n].event_start,
                           event_end |-> nodes[n].event_end,
                           event_depth |-> nodes[n].event_depth] \in GroupEvents(g)
           /\ ~HasDepth0(g) => nodes = <<>>

\* What of it holds of BuildTree.py: run() goes on to the next frame after
\* every frame, and every tree it prints has one root, of depth 0.
UtraceRunContinues ==
    /\ ut_pc = "done" => Len(ut_out) = Len(all_frame)
    /\ \A k \in 1..Len(ut_out) :
          ~ut_out[k].raised =>
             /\ ut_out[k].nodes # <<>>
             /\ ut_out[k].nodes[1].event_depth = 0
             /\ \A n \in 1..Len(ut_out[k].nodes) :
                   (ut_out[k].nodes[n].parent = 0) = (n = 1)

\* The same on the concurrent pipeline: a row group without a depth-0 row
\* gives the empty result, not an exception, and when the run returns
\* normally every frame was tracked and every included frame written.
RootlessGroupExcludedConcurrent ==
    /\ \A i \in Finished :
          frame_data_list[i + 1].rows[1].Depth # 0 /\ ~fut[i].result.raised
             => /\ ~fut[i].result.included
                /\ fut[i].result.frame_dict = EmptyDict
                /\ fut[i].result.original_nodes = 0
    /\ FinishedNormally =>
          tracker.frame_count = Len(frame_data_list)

-----------------------------------------------------------------------------
(* Properties of determinism, equivalence and the builders                 *)

\* The content a run over the rows leaves in the sink, as a function of the
\* rows alone: the bracket only when segmentation fails or finds no frame,
\* else the array of the included frames in index order.
SinkOf(rows) ==
    LET r == read_csv_and_split_frames(rows, 0) IN
    IF r.raised \/ r.frames = <<>> THEN <<Open>>
    ELSE <<Open>> \o ExpectedObjects(r.frames, 1, TRUE) \o <<Close>>

\* C21: when process_csv_multithreaded has returned, the content of the sink
\* is the same function of the input in every run, whatever the batch size,
\* the number of workers, and the order in which the units ran and completed.
C21_OutputDeterministic ==
    pc = "returned" => sink = SinkOf(input)

\* C21 witness: a finished run with two workers in which a frame completed
\* before a frame of smaller index, with both objects and the closing
\* bracket in the sink.
C21_Witness ==
    /\ FinishedNormally
    /\ num_workers = MaxWorkers
    /\ sink[Len(sink)] = Close
    /\ \E p, q \in 1..Len(frame_buffer) :
          /\ p < q
          /\ frame_buffer[p].key > frame_buffer[q].key
          /\ Heads(frame_buffer[p].key) # {}
          /\ Heads(frame_buffer[q].key) # {}
          /\ Min(Heads(frame_buffer[q].key)) < Min(Heads(frame_buffer[p].key))

\* The frame objects of a sink, in order, each as the rows of its nodes.
Objects(s) ==
    LET heads == SelectSeq(s, LAMBDA c : c.kind = "head")
    IN [k \in 1..Len(heads) |-> heads[k].d.nodes]

\* The rows all parse and the first one is a frame root.
ValidTrace ==
    /\ input # <<>>
    /\ input[1].Depth = 0
    /\ \A k \in 1..Len(input) : input[k].bad = "none"

\* C22 (the claim as stated), on a returned run of the sequential pipeline
\* over a valid trace with the processors of the concurrent one: the sink
\* holds what a run of process_csv_multithreaded over the same input leaves
\* in its sink.
C22_SameAsSequential ==
    (pc = "returned" /\ processors = "Threshold" /\ ValidTrace) => sink = SinkOf(input)

\* What of it holds: both pipelines write the same frames in the same order
\* with the same nodes; the frame_index in the metadata and the separators
\* differ.
SameTreesAsSequential ==
    (pc = "returned" /\ processors = "Threshold" /\ ValidTrace)
       => Objects(sink) = Objects(SinkOf(input))

\* The nodes of the tree under node k in depth-first order, children in the
\* order of the children list.
RECURSIVE Preorder(_, _)
RECURSIVE PreorderAll(_, _, _)
Preorder(nodes, k) == <<k>> \o PreorderAll(nodes, Children(nodes, k), 1)

PreorderAll(nodes, cs, j) ==
    IF j > Len(cs) THEN <<>>
    ELSE Preorder(nodes, cs[j]) \o PreorderAll(nodes, cs, j + 1)

\* The number of ancestors of node k.
RECURSIVE Level(_, _)
Level(nodes, k) == IF nodes[k].parent = 0 THEN 0 ELSE 1 + Level(nodes, nodes[k].parent)

\* The structure of the stack builder's tree: its nodes in depth-first
\* order, each with its event's interval and its level in the tree.
StackShape ==
    IF current_frame.root = 0 THEN <<>>
    ELSE LET order == Preorder(current_frame.nodes, current_frame.root) IN
         [i \in 1..Len(order) |->
             [event_start |-> ut_lines[current_frame.nodes[order[i]].row].Start,
              event_end |-> ut_lines[current_frame.nodes[order[i]].row].End,
              level |-> Level(current_frame.nodes, order[i])]]

\* The same for the interval builder's tree of the frame.
IntervalShape ==
    IF ut_out = <<>> \/ ut_out[1].nodes = <<>> THEN <<>>
    ELSE LET nodes == ut_out[1].nodes
             order == Preorder(nodes, 1)
         IN [i \in 1..Len(order) |->
                [event_start |-> nodes[order[i]].event_start,
                 event_end |-> nodes[order[i]].event_end,
                 level |-> Level(nodes, order[i])]]

\* The row before row k that is its parent in a depth-first listing: the
\* nearest preceding row of depth one less (0: none).
DfsParent(lines, k) ==
    LET cands == { j \in 1..(k - 1) : lines[j].Depth = lines[k].Depth - 1 }
    IN IF cands = {} THEN 0 ELSE CHOOSE j \in cands : \A i \in cands : i <= j

\* A depth-first ordered row group: the first row has depth 0 and each later
\* row a depth between 1 and the depth of the row before it plus 1.
DfsOrdered(lines) ==
    /\ lines # <<>>
    /\ lines[1].Depth = 0
    /\ \A k \in 2..Len(lines) :
          lines[k].Depth >= 1 /\ lines[k].Depth <= lines[k - 1].Depth + 1

\* A valid frame: its rows parse, are depth-first ordered, and every row's
\* interval lies in its parent's, equal ends allowed.
ValidDfsFrame(lines) ==
    /\ DfsOrdered(lines)
    /\ \A k \in 1..Len(lines) : ~lines[k].bad
    /\ \A k \in 2..Len(lines) :
          /\ lines[k].Start >= lines[DfsParent(lines, k)].Start
          /\ lines[k].End <= lines[DfsParent(lines, k)].End

BuildersDone == row_pos = Len(ut_lines) /\ ut_pc = "done"

\* C23 (the claim as stated): when both builders have built a valid
\* depth-first ordered frame, the interval builder did not raise and the
\* two trees have the same nodes, each under the same parent, in the same
\* child order.
C23_BuildersAgree ==
    (BuildersDone /\ ValidDfsFrame(ut_lines)) =>
        /\ ~ut_out[1].raised
        /\ ~current_frame.raised
        /\ StackShape = IntervalShape

\* What of it holds: the trees agree on the valid frames in which every
\* child ends before its parent ends and rows of equal depth do not overlap.
BuildersAgreeStrict ==
    ( /\ BuildersDone
      /\ ValidDfsFrame(ut_lines)
      /\ \A k \in 2..Len(ut_lines) :
            ut_lines[k].End < ut_lines[DfsParent(ut_lines, k)].End
      /\ \A j, k \in 2..Len(ut_lines) :
            (j < k /\ ut_lines[j].Depth = ut_lines[k].Depth)
               => ut_lines[j].End <= ut_lines[k].Start )
    => StackShape = IntervalShape

\* C24 (the claim as stated): in each default name processor,
\* process_timer_name never returns the empty string, and an empty raw name
\* gives the fixed name the processor has for it.
C24_NameNeverEmpty ==
    tn_pc = "done" =>
        /\ tn_out # <<>>
        /\ tn_name = <<>> => tn_out = FrameKento

\* The same for the processor of Processor/DefaultProcessors.py alone.
ProcessorNameNeverEmpty ==
    (tn_pc = "done" /\ tn_class = "Processor") =>
        /\ tn_out # <<>>
        /\ tn_name = <<>> => tn_out = FrameKento

\* C25 (the claim as stated): at most one thread holds the object, no call
\* of occupy waits for the lock, and while a thread holds the object the
\* occupier field is the argument of its call.
C25_ExclusiveOccupy ==
    /\ Cardinality({ t \in Threads : ex_pc[t] = "holding" }) <= 1
    /\ \A t \in Threads : ~(ex_pc[t] = "acquire" /\ ex_lock)
    /\ \A t \in Threads : ex_pc[t] = "holding" => ex_occupier = t

\* What of it holds: the lock is held by at most one thread at a time.
AtMostOneHolder ==
    Cardinality({ t \in Threads : ex_pc[t] \in {"holding", "rel_check", "rel_unlock"} }) <= 1

\* C26: once stop() has been called on the started object, running is
\* False from then on, and a coroutine_await call of run() that returns
\* gives default_ret when stop() has been called, whether or not the
\* awaited coroutine has completed, and the awaited coroutine's result
\* when it has not.
C26_StopIsFinal ==
    [][ /\ co_stop' = "called" => ~running'
        /\ (co_await # NoAwait /\ co_await' = NoAwait) =>
              co_ret' = IF co_stop = "called" THEN co_await.default_ret
                        ELSE co_await.result ]_vars

\* C26 witness: run() made a call that returned the coroutine's result,
\* stop() was called while run() was in its next call, whose coroutine
\* completed, and that call returned default_ret.
C26_Witness ==
    /\ co_stop = "called"
    /\ co_future = "Cancelled"
    /\ co_calls = MaxAwaits
    /\ co_await = NoAwait
    /\ co_ret \in CoDefaults
    /\ co_task = "finished"

-----------------------------------------------------------------------------
(* Properties of the batch loop and of the builders' steps                 *)

\* The units that were submitted and have not completed.
InFlight == { i \in DOMAIN fut : fut[i].state \in {"queued", "running"} }

\* C27: at most batch_size units are in flight, the units in flight belong
\* to one batch, and when the coordinator is about to submit the next batch
\* every unit submitted before has completed and was handled.
C27_BatchBackpressure ==
    /\ Cardinality(InFlight) <= batch_size
    /\ \A i, j \in DOMAIN fut : (i \div batch_size) = (j \div batch_size)
    /\ Cardinality(DOMAIN fut) <= batch_size
    /\ pc = "submit" => \A i \in DOMAIN fut : fut[i].state = "consumed"

\* C27 witness: the second batch is about to be submitted after a first
\* batch of batch_size > 1 units, all of them completed.
C27_Witness ==
    /\ pc = "submit"
    /\ batch_start = batch_size
    /\ batch_size = MaxBatch
    /\ Cardinality(DOMAIN fut) = batch_size
    /\ \A i \in DOMAIN fut : fut[i].state = "consumed"

\* Frame j's unit has completed and its completion was handled.
Handled(j) ==
    \/ j < batch_start
    \/ j \in DOMAIN fut /\ fut[j].state = "consumed"

\* C28 (the claim as stated): when the coordinator turns to the next
\* completion, the pending map holds no frame whose predecessors have all
\* completed (it was forwarded to the writer), and no frame has an object
\* in the sink while a frame of smaller index is incomplete.
C28_DrainAfterEachCompletion ==
    /\ pc = "wait" =>
          \A k \in Keys(frame_buffer) : \E j \in 0..(k - 1) : ~Handled(j)
    /\ \A k \in FrameIndices :
          Heads(k) # {} => \A j \in 0..(k - 1) : Handled(j)

\* What of it holds: no frame is written while a frame of smaller index is
\* incomplete.
WrittenAfterPredecessors ==
    \A k \in FrameIndices :
        Heads(k) # {} => \A j \in 0..(k - 1) : Handled(j)

\* The nodes built so far come from a depth-first ordered row group.
DfsOrderedNodes(nodes) ==
    /\ nodes # <<>>
    /\ nodes[1].depth = 0
    /\ \A k \in 2..Len(nodes) :
          nodes[k].depth >= 1 /\ nodes[k].depth <= nodes[k - 1].depth + 1

\* The nearest node before node k of depth one less (0: none).
NearestShallower(nodes, k) ==
    LET cands == { j \in 1..(k - 1) : nodes[j].depth = nodes[k].depth - 1 }
    IN IF cands = {} THEN 0 ELSE CHOOSE j \in cands : \A i \in cands : i <= j

\* C29: after the stack builder has processed a row of a depth-first
\* ordered row group, of depth d, the stack holds d + 1 nodes, of depths
\* 0..d, each the parent of the next, with the new node on top; and for
\* d >= 1 the new node is the last child of the nearest preceding row of
\* depth d - 1.
C29_StackDiscipline ==
    (~current_frame.raised /\ DfsOrderedNodes(current_frame.nodes)) =>
        LET nodes == current_frame.nodes
            stack == current_frame.stack
            n == Len(nodes)
            d == nodes[n].depth
        IN /\ Len(stack) = d + 1
           /\ stack[d + 1] = n
           /\ \A i \in 1..(d + 1) : nodes[stack[i]].depth = i - 1
           /\ \A i \in 1..d : nodes[stack[i + 1]].parent = stack[i]
           /\ d >= 1 =>
                 /\ nodes[n].parent = NearestShallower(nodes, n)
                 /\ Children(nodes, nodes[n].parent)
                       [Len(Children(nodes, nodes[n].parent))] = n

\* C29 witness: the rows root, child, grandchild, child were processed: at
\* the last row the stack was popped from three entries to one.
C29_Witness ==
    /\ ~current_frame.raised
    /\ Len(current_frame.nodes) = 4
    /\ [k \in 1..4 |-> current_frame.nodes[k].depth] = <<0, 1, 2, 1>>
    /\ current_frame.stack = <<1, 4>>
    /\ current_frame.nodes[4].parent = 1
    /\ current_frame.nodes[3].parent = 2

\* The events of the level below node p of the tree in leveled_data ld.
NextLevelEvents(ld, nodes, p) ==
    IF nodes[p].event_depth + 2 > Len(ld) THEN {}
    ELSE { ld[nodes[p].event_depth + 2][i] :
              i \in 1..Len(ld[nodes[p].event_depth + 2]) }

\* The tree has a node for event e under node p.
Attached(nodes, p, e) ==
    \E c \in 1..Len(nodes) :
        /\ nodes[c].parent = p
        /\ nodes[c].event_start = e.event_start
        /\ nodes[c].event_end = e.event_end
        /\ nodes[c].event_depth = e.event_depth

\* A build_tree step that returns a tree satisfies R(ld, nodes), ld being
\* the leveled_data it was built from and nodes the tree.
BuildTreeStep(R(_, _)) ==
    (ut_pc = "build" /\ ut_pc' # "build" /\ ~build_tree(leveled_data).raised
        /\ ~build_tree(leveled_data).none)
    => R(leveled_data, ut_out'[Len(ut_out')].nodes)

\* C30 (the claim as stated): in the tree build_tree returns, an event of
\* level L+1 is attached to a node of level L if and only if its start and
\* its end lie within [parent.start, parent.end], both bounds inclusive.
C30_AttachedIffContained ==
    [][ BuildTreeStep(LAMBDA ld, nodes :
          \A p \in 1..Len(nodes) : \A e \in NextLevelEvents(ld, nodes, p) :
             Attached(nodes, p, e) <=>
                /\ nodes[p].event_start <= e.event_start
                /\ e.event_start <= nodes[p].event_end
                /\ nodes[p].event_start <= e.event_end
                /\ e.event_end <= nodes[p].event_end) ]_vars

\* What of it holds: attached if and only if the start lies within
\* [parent.start, parent.end] and the end before parent.end.
AttachedIffEndsBefore ==
    [][ BuildTreeStep(LAMBDA ld, nodes :
          \A p \in 1..Len(nodes) : \A e \in NextLevelEvents(ld, nodes, p) :
             Attached(nodes, p, e) <=>
                /\ nodes[p].event_start <= e.event_start
                /\ e.event_start <= nodes[p].event_end
                /\ e.event_end < nodes[p].event_end) ]_vars

\* The second half of the claim: an event that starts inside a node of the
\* level above and ends after it is not attached to that node (it is
\* attached to another node when that one holds it).
EndsAfterAttachedToNothing ==
    [][ BuildTreeStep(LAMBDA ld, nodes :
          \A p \in 1..Len(nodes) : \A e \in NextLevelEvents(ld, nodes, p) :
             ( /\ nodes[p].event_start <= e.event_start
               /\ e.event_start <= nodes[p].event_end
               /\ e.event_end > nodes[p].event_end )
             => ~Attached(nodes, p, e)) ]_vars

\* A tree was built in which an event that starts inside a node and ends
\* after it was left out: child [2,5], event [4,6] of the level below.
EndsAfterCase ==
    \E k \in 1..Len(ut_out) :
        /\ ~ut_out[k].raised
        /\ \E p \in 1..Len(ut_out[k].nodes) :
              /\ ut_out[k].nodes[p].event_start = 2
              /\ ut_out[k].nodes[p].event_end = 5
        /\ \E f \in 1..Len(all_frame) : \E i \in 1..Len(all_frame[f]) :
              /\ ~all_frame[f][i].bad
              /\ all_frame[f][i].Start = 4 /\ all_frame[f][i].End = 6

\* Every edge of the stack builder's tree of the frame joins a node to a
\* parent whose interval holds the node's interval.
StackEdgesContained ==
    ~current_frame.raised =>
        \A k \in 1..Len(current_frame.nodes) :
            (current_frame.root # 0 /\ current_frame.nodes[k].parent # 0
                /\ InTree(current_frame.nodes, current_frame.root, k))
            => /\ ut_lines[current_frame.nodes[k].row].Start
                     >= ut_lines[current_frame.nodes[current_frame.nodes[k].parent].row].Start
               /\ ut_lines[current_frame.nodes[k].row].End
                     <= ut_lines[current_frame.nodes[current_frame.nodes[k].parent].row].End

\* The same for every tree the interval builder has returned.
IntervalEdgesContained ==
    \A f \in 1..Len(ut_out) : \A k \in 1..Len(ut_out[f].nodes) :
        ut_out[f].nodes[k].parent # 0 =>
            /\ ut_out[f].nodes[k].event_start
                  >= ut_out[f].nodes[ut_out[f].nodes[k].parent].event_start
            /\ ut_out[f].nodes[k].event_end
                  <= ut_out[f].nodes[ut_out[f].nodes[k].parent].event_end

\* C31 (the claim as stated): in the tree of either builder, for any row
\* group, every child's interval lies in its parent's interval:
\* child.start >= parent.start and child.end <= parent.end.
C31_EdgeContainment == StackEdgesContained /\ IntervalEdgesContained

\* The interval builder has returned a tree with an edge.
IntervalEdgeCase ==
    \E f \in 1..Len(ut_out) : \E k \in 1..Len(ut_out[f].nodes) :
        ut_out[f].nodes[k].parent # 0

\* The finished frames whose row group parses and starts with a root.
RootedFinished ==
    { i \in Finished :
         /\ ~BuildTree(frame_data_list[i + 1].rows).raised
         /\ frame_data_list[i + 1].rows[1].Depth = 0 }

\* C32 (the claim as stated): the result of a frame that has a root reports
\* original_nodes = the number of rows of the frame's row group and
\* filtered_nodes = the number of nodes of the serialized tree, with
\* filtered_nodes <= original_nodes.
C32_NodeCounts ==
    \A i \in RootedFinished :
        /\ fut[i].result.original_nodes = Len(frame_data_list[i + 1].rows)
        /\ fut[i].result.filtered_nodes = Len(fut[i].result.frame_dict.nodes)
        /\ fut[i].result.filtered_nodes <= fut[i].result.original_nodes

\* What of it holds: filtered_nodes counts the serialized tree and is not
\* above original_nodes, and original_nodes is the number of rows for the
\* frames that are not included.
FilteredNodesCounted ==
    \A i \in RootedFinished :
        /\ fut[i].result.filtered_nodes = Len(fut[i].result.frame_dict.nodes)
        /\ fut[i].result.filtered_nodes <= fut[i].result.original_nodes
        /\ ~Filtered(i) =>
              fut[i].result.original_nodes = Len(frame_data_list[i + 1].rows)

\* A frame was included with one of its nodes filtered out.
NodeFilteredCase ==
    \E i \in RootedFinished :
        /\ fut[i].result.included
        /\ fut[i].result.filtered_nodes < Len(frame_data_list[i + 1].rows)

\* s is the beginning of t.
IsPrefix(s, t) == Len(s) <= Len(t) /\ s = SubSeq(t, 1, Len(s))

\* C33 (the claim as stated): with max_frames = N >= 1 the segmenter yields
\* at most N frames, their indices are 0, 1, ... in order, and no row is in
\* two frames: the frames' rows, one after the other, are rows of the input
\* in order.
C33_MaxFramesRespected ==
    (Segmented /\ max_frames >= 1) =>
        /\ Len(frame_data_list) <= max_frames
        /\ \A f \in 1..Len(frame_data_list) : frame_data_list[f].frame_index = f - 1
        /\ IsPrefix(ConcatRows(frame_data_list, 1), input)

\* What holds: at most N + 1 frames with indices 0, 1, ... in order; up to N
\* of them are the first row groups of the input, and frame N, when there is
\* one, has the rows of frame N - 1 once more.
MaxFramesPlusOne ==
    (Segmented /\ max_frames >= 1) =>
        /\ Len(frame_data_list) <= max_frames + 1
        /\ \A f \in 1..Len(frame_data_list) : frame_data_list[f].frame_index = f - 1
        /\ IsPrefix(ConcatRows(SubSeq(frame_data_list, 1,
                                      IF Len(frame_data_list) > max_frames
                                      THEN max_frames ELSE Len(frame_data_list)), 1),
                    input)
        /\ Len(frame_data_list) > max_frames =>
              frame_data_list[max_frames + 1].rows = frame_data_list[max_frames].rows

\* The input had more than max_frames row groups.
MaxFramesCase ==
    Segmented /\ max_frames >= 1 /\ Len(frame_data_list) = max_frames + 1

\* C34 (the claim as stated): after a run whose frame processor is a
\* DefaultFrameProcessor with max_frame_count = N >= 0, at most N frame
\* objects are in the output; with N = 0 the array is empty.
C34_FrameCapRespected ==
    FinishedNormally => Len(Objects(sink)) <= max_frame_count

\* The same for N >= 1 alone.
FrameCapRespectedFromOne ==
    (FinishedNormally /\ max_frame_count >= 1) =>
        Len(Objects(sink)) <= max_frame_count

\* What holds on the concurrent pipeline: for N >= 1 at most N + 1 frames,
\* those of the indices 0..N.
FrameCapPlusOne ==
    (FinishedNormally /\ max_frame_count >= 1) =>
        /\ Len(Objects(sink)) <= max_frame_count + 1
        /\ \A p \in 1..Len(sink) :
              sink[p].kind = "head" => sink[p].d.frame_index <= max_frame_count

\* What holds on the sequential pipeline: for N >= 1 at most N frames when
\* the frame processor is the class of MultiThreadVersion.py.
SeqFrameCapRespected ==
    (FinishedNormally /\ max_frame_count >= 1 /\ processors = "Threshold") =>
        Len(Objects(sink)) <= max_frame_count

\* A run ended with as many frames in its output as the cap allows.
FrameCapCase ==
    /\ FinishedNormally
    /\ max_frame_count >= 1
    /\ Len(Objects(sink)) = max_frame_count
    /\ Cardinality({ i \in 1..Len(input) : input[i].Depth = 0 /\ input[i].Duration = 20 })
          > max_frame_count

\* C35 (the claim as stated): after a complete run get_summary reports
\* included_frames = the number of frame objects in the sink and
\* included_nodes = the number of nodes of those objects.
C35_SummaryMatchesOutput ==
    FinishedNormally =>
        /\ get_summary(tracker).included_frames = Len(Objects(sink))
        /\ get_summary(tracker).included_nodes = OutputNodes(sink, 1)

\* What holds: included_frames is the number of objects in the sink, and
\* the nodes of those objects are what the summary calls filtered_nodes.
IncludedFramesWritten ==
    FinishedNormally =>
        /\ get_summary(tracker).included_frames = Len(Objects(sink))
        /\ get_summary(tracker).filtered_nodes = OutputNodes(sink, 1)

\* A complete run that wrote a frame and excluded another.
IncludedFramesCase ==
    /\ FinishedNormally
    /\ Len(Objects(sink)) >= 1
    /\ get_summary(tracker).filtered_frames >= 1

\* The stack builder has processed rows of a group that starts with a
\* depth-0 row, all of which parse.
RootedGroupBuilt ==
    /\ ~current_frame.raised
    /\ current_frame.nodes # <<>>
    /\ current_frame.nodes[1].depth = 0
    /\ \A k \in 2..Len(current_frame.nodes) : current_frame.nodes[k].depth >= 1

\* Every row processed is one node of the tree under the root.
RowsAreNodes ==
    RootedGroupBuilt =>
        /\ Len(current_frame.nodes) = row_pos
        /\ \A k \in 1..row_pos :
              /\ current_frame.nodes[k].row = k
              /\ InTree(current_frame.nodes, current_frame.root, k)

\* C36 (the claim as stated): for a row group that starts with a depth-0
\* row, whatever the depths of the later rows, every row is one node of the
\* stack builder's tree and every edge joins a node of depth d to a node of
\* depth d + 1.
C36_EdgesOneLevel ==
    RootedGroupBuilt =>
        /\ RowsAreNodes
        /\ \A k \in 2..Len(current_frame.nodes) :
              current_frame.nodes[k].depth
                 = current_frame.nodes[current_frame.nodes[k].parent].depth + 1

\* What holds of the edges: the parent is an earlier row, and its depth is
\* the child's minus one when the rows up to the child are depth-first
\* ordered.
EdgesDownward ==
    RootedGroupBuilt =>
        \A k \in 2..Len(current_frame.nodes) :
            LET nodes == current_frame.nodes IN
            /\ nodes[k].parent \in 1..(k - 1)
            /\ DfsOrderedNodes(SubSeq(nodes, 1, k)) =>
                  nodes[k].depth = nodes[nodes[k].parent].depth + 1

\* A group whose depth jumps from 0 to 2 was built.
DepthJumpCase ==
    /\ RootedGroupBuilt
    /\ Len(current_frame.nodes) >= 2
    /\ current_frame.nodes[2].depth = 2

\* The events of every level of ld are pairwise non-overlapping: of two of
\* them one ends no later than the other starts.
LevelsDisjoint(ld) ==
    \A l \in 1..Len(ld) : \A i, j \in 1..Len(ld[l]) :
        i < j => \/ ld[l][i].event_end <= ld[l][j].event_start
                 \/ ld[l][j].event_end <= ld[l][i].event_start

\* The nodes of the tree made from event e, and the events of ld equal to e.
NodesOf(nodes, e) ==
    { c \in 1..Len(nodes) :
         /\ nodes[c].event_start = e.event_start
         /\ nodes[c].event_end = e.event_end
         /\ nodes[c].event_depth = e.event_depth }

EventsLike(ld, e) ==
    { i \in 1..Len(ld[e.event_depth + 1]) : ld[e.event_depth + 1][i] = e }

\* C37: when build_tree returns a tree made from levels of pairwise
\* non-overlapping events, the tree has no more nodes of an event than the
\* level has such events: every event is attached to at most one parent.
C37_AttachedOnce ==
    [][ BuildTreeStep(LAMBDA ld, nodes :
          LevelsDisjoint(ld) =>
             \A l \in 1..Len(ld) : \A i \in 1..Len(ld[l]) :
                Cardinality(NodesOf(nodes, ld[l][i]))
                   <= Cardinality(EventsLike(ld, ld[l][i]))) ]_vars

\* C37 witness: a tree was built from the root [0,10], the events [2,5] and
\* [5,8] below it, which touch at 5, and the event [5,6] below them, which
\* starts where they touch and is in the tree once, under [5,8].
C37_Witness ==
    \E f \in 1..Len(ut_out) :
        LET nodes == ut_out[f].nodes IN
        /\ ~ut_out[f].raised
        /\ Len(nodes) = 4
        /\ \E a, b, c \in 2..4 :
              /\ nodes[a].parent = 1 /\ nodes[a].event_start = 2 /\ nodes[a].event_end = 5
              /\ nodes[b].parent = 1 /\ nodes[b].event_start = 5 /\ nodes[b].event_end = 8
              /\ nodes[c].parent = b /\ nodes[c].event_start = 5 /\ nodes[c].event_end = 6

\* C38 (the claim as stated): is_alive answers False before start, True
\* while the started task has not finished, and False once it has finished.
C38_IsAliveWhileRunning ==
    is_alive <=> co_task \in {"created", "running"}

\* What is_alive answers: whether the task has finished.
IsAliveIsDone == is_alive <=> co_task = "finished"

\* C39 (the claim as stated): a stop() called after start() has returned
\* raises nothing and leaves the object not running, whether or not the
\* event loop has begun to run the task.
C39_StopAfterStart ==
    [][ (co_task # "none" /\ CoStop) => (co_stop' = "called" /\ ~running') ]_vars

\* What holds: stop() succeeds once __run_wrapper has begun, and raises
\* RuntimeError exactly when the task has not begun.
StopAfterWrapperBegin ==
    [][ (co_task # "none" /\ CoStop) =>
           IF co_task = "created" THEN co_stop' = "raised" /\ co_future' = "none"
           ELSE co_stop' = "called" /\ ~running' ]_vars

\* stop() was called after the wrapper had begun, and run() went on.
StopSucceededCase ==
    co_stop = "called" /\ co_future = "Cancelled" /\ co_task = "running"

DoneThenStopCase ==
    co_stop = "called" /\ co_task = "finished" /\ co_future = "Done"

====
